---- MODULE Spec2Model ----
(***************************************************************************)
(* next-geo: LLM signal detection (src/detect.ts), the artifact lookup     *)
(* (src/fs.ts), the markdown resolution pipeline (src/handler.ts) and the  *)
(* middleware in front of it (src/middleware.ts).                          *)
(*                                                                         *)
(* Strings are sequences of chunks.  A chunk is one character ("/", ".",   *)
(* ":", "\\", a letter, a digit) or, in Accept headers, user agents and    *)
(* file contents, a lexical chunk that the code never looks inside         *)
(* ("text/markdown", "ClaudeBot", "---", "redirect").  The string is the   *)
(* concatenation of its chunks.  A nullable string is a record             *)
(* [null, v].                                                              *)
(***************************************************************************)
EXTENDS Integers, Sequences, FiniteSets, TLC

VARIABLES
    op,          \* which entry point this behaviour exercises
    pc,          \* position inside the entry point
    req,         \* the inputs of the call (request, options, config)
    signal,      \* detectLlmSignal's return value
    path,        \* resolveMarkdown: the path parameter of the current call
    redirectDepth, \* resolveMarkdown: options.redirectDepth of the current call
    files,       \* the part of the content tree read so far: file path -> content
    trail,       \* history: one record per findPageMd call and per fetch
    result,      \* resolveMarkdown / findPageMd return value
    status,      \* HTTP status of the handler's response (0: none yet)
    responseBody, \* body of the handler's response
    globals,     \* the module-level state of the process: the stored bot
                 \* list and the caches of the llms.txt handlers
    now          \* Date.now(), in seconds

vars == <<op, pc, req, signal, path, redirectDepth, files, trail, result, status,
          responseBody, globals, now>>

----------------------------------------------------------------------------
(* String primitives of the JavaScript runtime, on chunk sequences.        *)

NullStr == [null |-> TRUE, v |-> <<>>]
Some(s) == [null |-> FALSE, v |-> s]
\* JavaScript truthiness of a nullable string: neither null nor "".
Truthy(ns) == ~ns.null /\ ns.v # <<>>

StartsWith(s, p) == Len(p) <= Len(s) /\ SubSeq(s, 1, Len(p)) = p
EndsWith(s, p) == Len(p) <= Len(s) /\ SubSeq(s, Len(s) - Len(p) + 1, Len(s)) = p
\* String.prototype.includes
Includes(s, p) == \E i \in 1..(Len(s) - Len(p) + 1) : SubSeq(s, i, i + Len(p) - 1) = p
\* s.slice(n) for n >= 0
DropFirst(s, n) == SubSeq(s, n + 1, Len(s))

\* String.prototype.split on a set of one-chunk separators: the pieces
\* between separators, empty pieces included.
RECURSIVE SplitOn(_, _)
SplitOn(s, seps) ==
    IF \A i \in 1..Len(s) : s[i] \notin seps
    THEN <<s>>
    ELSE LET i == CHOOSE j \in 1..Len(s) :
                      s[j] \in seps /\ \A k \in 1..(j - 1) : s[k] \notin seps
         IN  <<SubSeq(s, 1, i - 1)>> \o SplitOn(DropFirst(s, i), seps)

Split(s, sep) == SplitOn(s, {sep})

WhiteSpace == {" ", "\n", "\r", "\t"}

RECURSIVE TrimStart(_)
TrimStart(s) == IF s # <<>> /\ s[1] \in WhiteSpace THEN TrimStart(Tail(s)) ELSE s
RECURSIVE TrimEnd(_)
TrimEnd(s) ==
    IF s # <<>> /\ s[Len(s)] \in WhiteSpace THEN TrimEnd(SubSeq(s, 1, Len(s) - 1)) ELSE s
\* String.prototype.trim
Trim(s) == TrimEnd(TrimStart(s))

\* Concatenation of a sequence of strings with a separator chunk between them.
RECURSIVE Join(_, _)
Join(parts, sep) ==
    IF parts = <<>> THEN <<>>
    ELSE IF Len(parts) = 1 THEN parts[1]
    ELSE parts[1] \o <<sep>> \o Join(Tail(parts), sep)

\* All sequences over S of length at most n.
RECURSIVE SeqUpTo(_, _)
SeqUpTo(S, n) ==
    IF n = 0 THEN {<<>>}
    ELSE LET shorter == SeqUpTo(S, n - 1)
         IN  shorter \cup {Append(s, x) : s \in {t \in shorter : Len(t) = n - 1}, x \in S}

----------------------------------------------------------------------------
(* src/constants.ts                                                        *)

\* Known LLM bot User-Agent patterns, in list order.
BOT_USER_AGENTS ==
    << <<"ChatGPT-User">>, <<"ClaudeBot">>, <<"GPTBot">>, <<"PerplexityBot">>,
       <<"Applebot-Extended">>, <<"Google-Extended">>, <<"CCBot">>,
       <<"anthropic-ai">>, <<"cohere-ai">>, <<"Claude-SearchTool">> >>

----------------------------------------------------------------------------
(* src/detect.ts                                                           *)

DigitChars == <<"0", "1", "2", "3", "4", "5", "6", "7", "8", "9">>
IsDigit(c) == \E i \in 1..Len(DigitChars) : DigitChars[i] = c
DigitVal(c) == (CHOOSE i \in 1..Len(DigitChars) : DigitChars[i] = c) - 1

RECURSIVE LeadingDigits(_)
LeadingDigits(s) ==
    IF s # <<>> /\ IsDigit(s[1]) THEN <<s[1]>> \o LeadingDigits(Tail(s)) ELSE <<>>

RECURSIVE IntVal(_)
IntVal(ds) ==
    IF ds = <<>> THEN 0 ELSE IntVal(SubSeq(ds, 1, Len(ds) - 1)) * 10 + DigitVal(ds[Len(ds)])

\* The global parseFloat: leading white space skipped, an optional sign, the
\* longest decimal prefix; NaN when there is none.  Numbers are held in
\* tenths (0.8 is 8, 1 is 10); fraction digits after the first are dropped.
NaN == [nan |-> TRUE, tenths |-> 0]
Num(t) == [nan |-> FALSE, tenths |-> t]
parseFloat(s) ==
    LET t    == TrimStart(s)
        neg  == t # <<>> /\ t[1] = "-"
        u    == IF t # <<>> /\ t[1] \in {"-", "+"} THEN Tail(t) ELSE t
        ip   == LeadingDigits(u)
        rest == DropFirst(u, Len(ip))
        fp   == IF rest # <<>> /\ rest[1] = "." THEN LeadingDigits(Tail(rest)) ELSE <<>>
        mag  == IntVal(ip) * 10 + (IF fp = <<>> THEN 0 ELSE DigitVal(fp[1]))
    IN  IF ip = <<>> /\ fp = <<>> THEN NaN
        ELSE Num(IF neg THEN 0 - mag ELSE mag)

\* String.prototype.toLowerCase; the chunks with capitals are listed.
LowerChunk(c) ==
    IF c = "TEXT/Markdown" THEN "text/markdown"
    ELSE IF c = "Q" THEN "q"
    ELSE c
ToLowerCase(s) == [i \in 1..Len(s) |-> LowerChunk(s[i])]

\* Every text/markdown entry counts with quality 1.
EntryQuality_Default(params) == 10

\* The quality of one Accept entry whose media type is text/markdown.
EntryQuality(params) ==
    IF \E i \in 1..Len(params) : StartsWith(params[i], <<"q", "=">>)
    THEN LET i == CHOOSE j \in 1..Len(params) :
                      /\ StartsWith(params[j], <<"q", "=">>)
                      /\ \A k \in 1..(j - 1) : ~StartsWith(params[k], <<"q", "=">>)
             q == parseFloat(DropFirst(params[i], 2))
         IN  IF q.nan THEN 10 ELSE q.tenths
    ELSE 10

\* The pieces of one Accept entry: split on ";", each piece trimmed.
EntryPieces(part) ==
    LET raw == Split(part, ";") IN [i \in 1..Len(raw) |-> Trim(raw[i])]

IsMarkdownEntry(part) == ToLowerCase(EntryPieces(part)[1]) = <<"text/markdown">>

\* parseAcceptMarkdown: the quality (in tenths) of the first text/markdown
\* entry, 0 when there is none.
parseAcceptMarkdown(accept) ==
    LET raw   == Split(accept, ",")
        parts == [i \in 1..Len(raw) |-> Trim(raw[i])]
    IN  IF \E i \in 1..Len(parts) : IsMarkdownEntry(parts[i])
        THEN LET i == CHOOSE j \in 1..Len(parts) :
                          /\ IsMarkdownEntry(parts[j])
                          /\ \A k \in 1..(j - 1) : ~IsMarkdownEntry(parts[k])
             IN  EntryQuality(Tail(EntryPieces(parts[i])))
        ELSE 0

NoSignal == [type |-> "null"]

\* Step 1 of detectLlmSignal: the .md URL suffix.
SuffixMatches(pathname, options) ==
    options.enableMdSuffix /\ EndsWith(pathname, <<".", "m", "d">>)

\* The md-suffix signal with the path left as requested.
MdSuffixSignal_Unstripped(pathname) ==
    [type |-> "md-suffix", originalPath |-> pathname]

MdSuffixSignal(pathname) ==
    LET stripped == SubSeq(pathname, 1, Len(pathname) - 3)
    IN  [type |-> "md-suffix",
         originalPath |-> IF stripped = <<>> THEN <<"/">> ELSE stripped]

\* Step 2: the Accept header.
AcceptMatches(accept) == Truthy(accept) /\ parseAcceptMarkdown(accept.v) > 0

\* Step 3: the first pattern of the built-in list followed by the additional
\* patterns that the user agent contains.
\* The additional patterns before the built-in ones.
AllPatterns_AdditionalFirst(options) ==
    options.additionalBotUserAgents \o BOT_USER_AGENTS

AllPatterns(options) == BOT_USER_AGENTS \o options.additionalBotUserAgents

UserAgentSignal(userAgent, options) ==
    LET all == AllPatterns(options)
    IN  IF options.enableUserAgentDetection /\ Truthy(userAgent)
           /\ \E i \in 1..Len(all) : Includes(userAgent.v, all[i])
        THEN LET i == CHOOSE j \in 1..Len(all) :
                          /\ Includes(userAgent.v, all[j])
                          /\ \A k \in 1..(j - 1) : ~Includes(userAgent.v, all[k])
             IN  [type |-> "user-agent", botName |-> all[i]]
        ELSE NoSignal

\* The checks in another order: the Accept header before the suffix.
detectLlmSignal_AcceptFirst(pathname, accept, userAgent, options) ==
    IF AcceptMatches(accept)
    THEN [type |-> "accept-header", quality |-> parseAcceptMarkdown(accept.v)]
    ELSE IF SuffixMatches(pathname, options) THEN MdSuffixSignal(pathname)
         ELSE UserAgentSignal(userAgent, options)

detectLlmSignal(pathname, accept, userAgent, options) ==
    IF SuffixMatches(pathname, options) THEN MdSuffixSignal(pathname)
    ELSE IF AcceptMatches(accept)
         THEN [type |-> "accept-header", quality |-> parseAcceptMarkdown(accept.v)]
         ELSE UserAgentSignal(userAgent, options)

\* The module-level state when the process starts: the array that
\* BOT_USER_AGENTS names and the two empty caches of the llms.txt handlers.
NoCache == [null |-> TRUE, content |-> <<>>, expiresAt |-> 0]
InitialGlobals ==
    [BOT_USER_AGENTS |-> BOT_USER_AGENTS, llmsTxtCache |-> NoCache,
     llmsFullTxtCache |-> NoCache]

\* The stored array when allPatterns is built from it: the spread copies
\* it into a new array.
StoredPatterns(stored, additional) == stored

\* The module-level state after a call of detectLlmSignal; allPatterns is
\* built only when the user-agent step is reached.
AfterDetect(g, pathname, accept, userAgent, options) ==
    IF SuffixMatches(pathname, options) \/ AcceptMatches(accept)
       \/ ~(options.enableUserAgentDetection /\ Truthy(userAgent))
    THEN g
    ELSE [g EXCEPT !.BOT_USER_AGENTS =
                       StoredPatterns(@, options.additionalBotUserAgents)]

----------------------------------------------------------------------------
(* The inputs of detectLlmSignal that the model draws.                     *)

\* The largest number of entries of an Accept header.
MaxAcceptEntries == 2

DetectPaths ==
    { <<"/">>, <<"/", "a">>, <<"/", ".", "m", "d">>, <<"/", "a", ".", "m", "d">>,
      <<"/", "a", ".", "m", "d", "/">>, <<"/", "a", "m", "d">> }

MediaTypes == {<<"text/markdown">>, <<"TEXT/Markdown">>, <<"text/html">>}
QValues == {<<"0">>, <<"0", ".", "8">>, <<"x">>}
AcceptEntries ==
    MediaTypes \cup {m \o <<";", "q", "=">> \o q : m \in MediaTypes, q \in QValues}

\* Entries joined by ", " as browsers and HTTP clients write them.
RECURSIVE JoinEntries(_)
JoinEntries(es) ==
    IF Len(es) = 1 THEN es[1] ELSE es[1] \o <<",", " ">> \o JoinEntries(Tail(es))

AcceptHeaders ==
    {NullStr, Some(<<>>)}
        \cup {Some(JoinEntries(es)) : es \in SeqUpTo(AcceptEntries, MaxAcceptEntries) \ {<<>>}}

UserAgents ==
    { NullStr,
      Some(<<"Mozilla", "/", "5.0">>),
      Some(<<"ClaudeBot", "/", "1.0">>),
      Some(<<"MyCustomBot", "/", "2.0", " ", "GPTBot">>) }

DetectOptions ==
    [enableMdSuffix : BOOLEAN, enableUserAgentDetection : BOOLEAN,
     additionalBotUserAgents : {<<>>, << <<"MyCustomBot">> >>}]

\* The options when the caller passes none.
DefaultDetectOptions ==
    [enableMdSuffix |-> TRUE, enableUserAgentDetection |-> TRUE,
     additionalBotUserAgents |-> <<>>]

----------------------------------------------------------------------------
(* One call of detectLlmSignal on inputs drawn from the sets above.        *)

NoRequest == [kind |-> "none"]
NoResult == [type |-> "null"]

InitDetect ==
    /\ op = "detect"
    /\ pc = "idle"
    /\ req = NoRequest
    /\ signal = NoSignal
    /\ path = <<>>
    /\ redirectDepth = 0
    /\ files = <<>>
    /\ trail = <<>>
    /\ result = NoResult
    /\ status = 0
    /\ responseBody = <<>>
    /\ globals = InitialGlobals
    /\ now = 0

Detect ==
    /\ op = "detect"
    /\ pc = "idle"
    /\ \E p \in DetectPaths, a \in AcceptHeaders, u \in UserAgents, o \in DetectOptions :
          /\ req' = [kind |-> "detect", pathname |-> p, accept |-> a,
                     userAgent |-> u, options |-> o]
          /\ signal' = detectLlmSignal(p, a, u, o)
          /\ globals' = AfterDetect(globals, p, a, u, o)
    /\ pc' = "done"
    /\ UNCHANGED <<now, op, path, redirectDepth, files, trail, result, status, responseBody>>

NextDetect == Detect

SpecDetect == InitDetect /\ [][NextDetect]_vars

----------------------------------------------------------------------------
(* One call of detectLlmSignal on an Accept header written from a list of  *)
(* entries, each a media type with or without a q parameter.               *)

NoQ == <<"none">>
AcceptQValues ==
    {NoQ, <<"0">>, <<"0", ".", "8">>, <<"1">>, <<"5">>, <<"-", "1">>, <<"x">>}
AcceptEntryRecords == [media : MediaTypes, q : AcceptQValues]

\* The entry as a client writes it.
WriteEntry(e) == IF e.q = NoQ THEN e.media ELSE e.media \o <<";", "q", "=">> \o e.q
WriteAccept(es) == JoinEntries([i \in 1..Len(es) |-> WriteEntry(es[i])])

AcceptRequests ==
    { [kind |-> "accept", entries |-> es, pathname |-> <<"/", "a">>,
       accept |-> Some(WriteAccept(es)),
       userAgent |-> Some(<<"ClaudeBot", "/", "1.0">>), options |-> DefaultDetectOptions] :
         es \in SeqUpTo(AcceptEntryRecords, MaxAcceptEntries) \ {<<>>} }

InitAccept ==
    /\ op = "accept"
    /\ pc = "idle"
    /\ req \in AcceptRequests
    /\ signal = NoSignal
    /\ path = <<>>
    /\ redirectDepth = 0
    /\ files = <<>>
    /\ trail = <<>>
    /\ result = NoResult
    /\ status = 0
    /\ responseBody = <<>>
    /\ globals = InitialGlobals
    /\ now = 0

DetectAccept ==
    /\ op = "accept"
    /\ pc = "idle"
    /\ signal' = detectLlmSignal(req.pathname, req.accept, req.userAgent, req.options)
    /\ globals' = AfterDetect(globals, req.pathname, req.accept, req.userAgent,
                              req.options)
    /\ pc' = "done"
    /\ UNCHANGED <<now, op, req, path, redirectDepth, files, trail, result, status,
                   responseBody>>

NextAccept == DetectAccept

SpecAccept == InitAccept /\ [][NextAccept]_vars

----------------------------------------------------------------------------
(* src/handler.ts: the path validator                                      *)

\* Only ".." counts as a traversal segment.
IsDotSegment_DotDotOnly(s) == s = <<".", ".">>

IsDotSegment(s) == s = <<".">> \/ s = <<".", ".">>

isValidPath(p) ==
    LET segments == Split(p, "/")
    IN  /\ StartsWith(p, <<"/">>)
        /\ ~StartsWith(p, <<"/", "/">>)
        /\ ~Includes(p, <<":", "/", "/">>)
        /\ ~\E i \in 1..Len(segments) : IsDotSegment(segments[i])

----------------------------------------------------------------------------
(* src/fs.ts: the artifact lookup                                          *)

\* process.cwd() and join(process.cwd(), "app")
Cwd == <<"/", "cwd">>
AppDir == Cwd \o <<"/", "app">>
PageMd == <<"page.md">>

\* posix path normalisation of a list of segments below the root: empty and
\* "." segments vanish, ".." removes the segment before it and stays at the
\* root when there is none.
RECURSIVE NormalizeSegments(_, _)
NormalizeSegments(segs, acc) ==
    IF segs = <<>> THEN acc
    ELSE LET s == Head(segs)
         IN  IF s = <<>> \/ s = <<".">> THEN NormalizeSegments(Tail(segs), acc)
             ELSE IF s = <<".", ".">>
                  THEN NormalizeSegments(Tail(segs),
                           IF acc = <<>> THEN acc ELSE SubSeq(acc, 1, Len(acc) - 1))
                  ELSE NormalizeSegments(Tail(segs), Append(acc, s))

\* path.resolve(dir, ...parts) for an absolute dir and parts that hold no
\* separator (they come from a split on "/"): the normalised absolute path.
resolve(dir, parts) ==
    LET all == Split(Tail(dir), "/") \o parts
    IN  <<"/">> \o Join(NormalizeSegments(all, <<>>), "/")

\* The containment test without the separator: a bare prefix test.
isPathWithinDirectory_Prefix(filePath, directory) ==
    StartsWith(filePath, SubSeq(directory, 1, 2))

isPathWithinDirectory(filePath, directory) ==
    StartsWith(filePath, directory \o <<"/">>) \/ filePath = directory

\* tryReadFile on a content tree fs (file path -> content): null when the
\* file is absent or unreadable.
tryReadFile(fs, filePath) ==
    IF filePath \in DOMAIN fs THEN fs[filePath] ELSE NullStr

\* The segments of a request path: "/" -> [], "/pricing" -> ["pricing"].
PathSegments(requestPath) ==
    LET normalizedPath ==
            IF requestPath = <<"/">> THEN <<>>
            ELSE IF StartsWith(requestPath, <<"/">>) THEN Tail(requestPath)
            ELSE requestPath
    IN  IF normalizedPath # <<>> THEN Split(normalizedPath, "/") ELSE <<>>

\* Every top-level directory counts as a route group.
IsRouteGroup_Any(d) == TRUE

IsRouteGroup(d) == StartsWith(d, <<"(">>) /\ EndsWith(d, <<")">>)

DirectPath(requestPath) == resolve(AppDir, PathSegments(requestPath) \o <<PageMd>>)
GroupPath(group, requestPath) ==
    resolve(AppDir, <<group>> \o PathSegments(requestPath) \o <<PageMd>>)

\* The loop over the route groups: an escaping candidate is skipped, the
\* first readable one is returned.  reads collects the paths handed to
\* tryReadFile.
RECURSIVE ScanGroups(_, _, _, _)
ScanGroups(groups, requestPath, fs, reads) ==
    IF groups = <<>> THEN [content |-> NullStr, reads |-> reads]
    ELSE LET groupPath == GroupPath(Head(groups), requestPath)
         IN  IF ~isPathWithinDirectory(groupPath, AppDir)
             THEN ScanGroups(Tail(groups), requestPath, fs, reads)
             ELSE IF ~tryReadFile(fs, groupPath).null
                  THEN [content |-> tryReadFile(fs, groupPath),
                        reads |-> Append(reads, groupPath)]
                  ELSE ScanGroups(Tail(groups), requestPath, fs,
                                  Append(reads, groupPath))

\* findPageMd(requestPath) on the content tree fs and the result of
\* readdir(appDir), listing = [ok, names].  Returns the content (null when
\* none is found), the paths read and whether the directory was listed.
findPageMd(requestPath, fs, listing) ==
    LET directPath == DirectPath(requestPath)
    IN  IF ~isPathWithinDirectory(directPath, AppDir)
        THEN [content |-> NullStr, reads |-> <<>>, listed |-> FALSE]
        ELSE IF ~tryReadFile(fs, directPath).null
        THEN [content |-> tryReadFile(fs, directPath), reads |-> <<directPath>>,
              listed |-> FALSE]
        ELSE IF ~listing.ok
        THEN [content |-> NullStr, reads |-> <<directPath>>, listed |-> TRUE]
        ELSE LET routeGroups == SelectSeq(listing.names, IsRouteGroup)
                 scan == ScanGroups(routeGroups, requestPath, fs, <<directPath>>)
             IN  [content |-> scan.content, reads |-> scan.reads, listed |-> TRUE]

\* The files that decide a lookup of requestPath: page.md at the direct
\* path and under every top-level directory.
Candidates(requestPath, listing) ==
    {DirectPath(requestPath)}
        \cup {GroupPath(listing.names[i], requestPath) : i \in 1..Len(listing.names)}

----------------------------------------------------------------------------
(* src/fs.ts: parseFrontmatter                                             *)

Dashes == <<"-", "-", "-">>

\* content.indexOf("---", 3): the first 0-based index >= 3 where "---"
\* starts, -1 when there is none.
IndexOfDashes(content) ==
    LET hits == {i \in 3..(Len(content) - 3) : SubSeq(content, i + 1, i + 3) = Dashes}
    IN  IF hits = {} THEN 0 - 1 ELSE CHOOSE i \in hits : \A j \in hits : i <= j

\* A line matched against /^\s*redirect\s*:\s*(.+?)\s*$/ : the captured
\* value, <<>> when the line does not match.  "." matches no line
\* terminator; when only white space follows the colon the capture is the
\* last white-space character that is not a line terminator.
LineTerminators == {"\n", "\r"}
RedirectOfLine(line) ==
    LET t == TrimStart(line)
    IN  IF ~StartsWith(t, <<"redirect">>) THEN <<>>
        ELSE LET u == TrimStart(Tail(t))
             IN  IF ~StartsWith(u, <<":">>) THEN <<>>
                 ELSE LET after == Tail(u)
                          value == Trim(after)
                      IN  IF value # <<>>
                          THEN IF \E i \in 1..Len(value) : value[i] \in LineTerminators
                               THEN <<>> ELSE value
                          ELSE LET ok == {i \in 1..Len(after) :
                                              after[i] \notin LineTerminators}
                               IN  IF ok = {} THEN <<>>
                                   ELSE <<after[CHOOSE i \in ok : \A j \in ok : j <= i]>>

\* body.replace(/^\r?\n/, "")
StripLeadingBreak(s) ==
    IF StartsWith(s, <<"\r", "\n">>) THEN DropFirst(s, 2)
    ELSE IF StartsWith(s, <<"\n">>) THEN Tail(s)
    ELSE s

\* parseFrontmatter(content): redirect is null when the block names none.
parseFrontmatter(content) ==
    IF ~StartsWith(content, Dashes) THEN [redirect |-> NullStr, body |-> content]
    ELSE LET endIndex == IndexOfDashes(content)
         IN  IF endIndex = 0 - 1 THEN [redirect |-> NullStr, body |-> content]
             ELSE LET frontmatter == SubSeq(content, 4, endIndex)
                      body  == StripLeadingBreak(DropFirst(content, endIndex + 3))
                      lines == Split(frontmatter, "\n")
                      hits  == {i \in 1..Len(lines) : RedirectOfLine(lines[i]) # <<>>}
                  IN  [redirect |->
                           IF hits = {} THEN NullStr
                           ELSE Some(RedirectOfLine(
                                    lines[CHOOSE i \in hits : \A j \in hits : i <= j])),
                       body |-> body]

----------------------------------------------------------------------------
(* The URL constructor of the runtime (WHATWG URL parsing) for http URLs   *)
(* without user info, port, query or fragment: new URL(ref) and            *)
(* new URL(ref, base).  A URL is [ok, host, pathname]; ok = FALSE stands   *)
(* for the TypeError the constructor throws.                               *)

Slashes == {"/", "\\"}
Punctuation == Slashes \cup {":", ".", " ", "(", ")", "-"}

BadUrl == [ok |-> FALSE, host |-> <<>>, pathname |-> <<>>]
NoBase == BadUrl

RECURSIVE SkipSlashes(_)
SkipSlashes(s) == IF s # <<>> /\ s[1] \in Slashes THEN SkipSlashes(Tail(s)) ELSE s

RECURSIVE UpToSlash(_)
UpToSlash(s) ==
    IF s = <<>> \/ s[1] \in Slashes THEN <<>> ELSE <<s[1]>> \o UpToSlash(Tail(s))

\* The path state: segments are split on "/" and "\"; a "." segment is
\* dropped, a ".." segment removes the one before it, and either leaves an
\* empty segment when it is the last one.
RECURSIVE UrlSegments(_, _)
UrlSegments(segs, acc) ==
    IF segs = <<>> THEN acc
    ELSE LET s    == Head(segs)
             last == Len(segs) = 1
             pop  == IF acc = <<>> THEN acc ELSE SubSeq(acc, 1, Len(acc) - 1)
         IN  IF s = <<".", ".">>
             THEN UrlSegments(Tail(segs), IF last THEN Append(pop, <<>>) ELSE pop)
             ELSE IF s = <<".">>
             THEN UrlSegments(Tail(segs), IF last THEN Append(acc, <<>>) ELSE acc)
             ELSE UrlSegments(Tail(segs), Append(acc, s))

\* The pathname for the text after the leading slash, on top of the
\* segments dir of the base.
UrlPath(dir, s) == <<"/">> \o Join(UrlSegments(SplitOn(s, Slashes), dir), "/")

\* The authority and what follows it, after "//" and any further slashes.
UrlAuthority(s) ==
    LET host == UpToSlash(s)
        rest == DropFirst(s, Len(host))
    IN  IF host = <<>> THEN BadUrl
        ELSE [ok |-> TRUE, host |-> host,
              pathname |-> IF rest = <<>> THEN <<"/">> ELSE UrlPath(<<>>, Tail(rest))]

\* The segments of the base's pathname without its last one.
BaseDir(base) ==
    LET segs == Split(Tail(base.pathname), "/")
    IN  SubSeq(segs, 1, Len(segs) - 1)

\* A reference without a scheme, against a base.
UrlRelative(s, b) ==
    IF s = <<>> THEN b
    ELSE IF s[1] \in Slashes
         THEN IF Len(s) >= 2 /\ s[2] \in Slashes
              THEN UrlAuthority(SkipSlashes(s))
              ELSE [ok |-> TRUE, host |-> b.host, pathname |-> UrlPath(<<>>, Tail(s))]
         ELSE [ok |-> TRUE, host |-> b.host, pathname |-> UrlPath(BaseDir(b), s)]

HasScheme(s) == Len(s) >= 2 /\ s[1] \notin Punctuation /\ s[2] = ":"

\* new URL(ref, base); base = NoBase for new URL(ref).
ParseUrl(ref, base) ==
    LET s == Trim(ref)
    IN  IF HasScheme(s)
        THEN IF s[1] # "http"
             THEN [ok |-> TRUE, host |-> <<>>, pathname |-> DropFirst(s, 2)]
             ELSE LET rest == DropFirst(s, 2)
                  IN  IF base.ok /\ ~StartsWith(rest, <<"/", "/">>)
                      THEN UrlRelative(rest, base)
                      ELSE UrlAuthority(SkipSlashes(rest))
        ELSE IF ~base.ok THEN BadUrl
        ELSE UrlRelative(s, base)

----------------------------------------------------------------------------
(* src/handler.ts: resolveMarkdown                                         *)

MAX_REDIRECTS == 3
MAX_HTML_SIZE == 5 * 1024 * 1024

PublicCacheControl == "public, max-age=300, s-maxage=3600"
PrivateCacheControl == "private, max-age=300"

INTERNAL_FETCH_HEADER == "x-llm-internal-fetch"

\* parseInt(s, 10): NaN when s has no leading integer.
parseInt(s) ==
    LET t   == TrimStart(s)
        neg == t # <<>> /\ t[1] = "-"
        u   == IF t # <<>> /\ t[1] \in {"-", "+"} THEN Tail(t) ELSE t
        ds  == LeadingDigits(u)
    IN  IF ds = <<>> THEN [nan |-> TRUE, n |-> 0]
        ELSE [nan |-> FALSE, n |-> IF neg THEN 0 - IntVal(ds) ELSE IntVal(ds)]

\* The external converter: opaque, a function of the page it is given.
htmlToMarkdown(html) == <<"markdown-of", html.id>>

\* A page.md body returned with the policy of converted pages.
CuratedResult_Private(body) ==
    [type |-> "content", content |-> body, cacheControl |-> PrivateCacheControl]

\* What resolveMarkdown returns for a page.md body and for a converted page.
CuratedResult(body) ==
    [type |-> "content", content |-> body, cacheControl |-> PublicCacheControl]
ConvertedResult(html) ==
    [type |-> "content", content |-> htmlToMarkdown(html),
     cacheControl |-> PrivateCacheControl]

\* The base URL of the internal fetch: config.internalBaseUrl, or the
\* protocol and host of the request.
RequestOrigin == <<"http", ":", "/", "/", "o">>
BaseUrlOf(config) ==
    IF ~config.internalBaseUrl.null THEN config.internalBaseUrl.v ELSE RequestOrigin

\* The frontmatter redirect of a found page.md is followed.
\* The frontmatter follow without the depth test.
FollowsFrontmatter_Unbounded(redirect, depth) == isValidPath(redirect)

FollowsFrontmatter(redirect, depth) ==
    isValidPath(redirect) /\ ~(depth >= MAX_REDIRECTS)

\* The fetch URL is never refused.
HostMismatch_Never(url, base) == FALSE

\* url.host !== base.host
HostMismatch(url, base) == url.host # base.host

\* The internal fetch without the marker header.
FetchHeaders_NoMarker(cookie) ==
    [marker |-> "", accept |-> "text/html", cookie |-> cookie]

\* The headers of the internal fetch.
FetchHeaders(cookie) ==
    [marker |-> INTERNAL_FETCH_HEADER, accept |-> "text/html", cookie |-> cookie]

\* The redirect mode of the internal fetch.
FetchRedirectMode == "manual"

\* Redirect handling without the depth test.
IsRedirectResponse_Unbounded(resp, depth) == resp.status >= 300 /\ resp.status < 400

\* The response is a redirect that the hop bound still allows to handle.
IsRedirectResponse(resp, depth) ==
    depth < MAX_REDIRECTS /\ resp.status >= 300 /\ resp.status < 400

\* Every resolved location is followed.
RedirectAllowed_Any(redirectUrl, base) == TRUE

\* The same-host test on the resolved location.
RedirectAllowed(redirectUrl, base) == redirectUrl.host = base.host

\* response.ok
ResponseOk(resp) == resp.status >= 200 /\ resp.status <= 299

\* The content-length pre-check rejects the response.
DeclaredTooLarge(resp) ==
    /\ Truthy(resp.contentLength)
    /\ ~parseInt(resp.contentLength.v).nan
    /\ parseInt(resp.contentLength.v).n > MAX_HTML_SIZE

\* The check after response.text() without the length test.
BodyRejected_BlankOnly(html) == html.blank

\* The check after response.text() without the blank test.
BodyRejected_TooLongOnly(html) == html.len > MAX_HTML_SIZE

\* The check after response.text() rejects the body.
BodyRejected(html) == html.blank \/ html.len > MAX_HTML_SIZE

----------------------------------------------------------------------------
(* The environment of one GET of the handler: the request, the content     *)
(* tree and the answers of the server.                                     *)

\* x-llm-target-path / ?path= values.
RawPaths ==
    { NullStr, Some(<<>>),
      Some(<<"/">>), Some(<<"/", "a">>),
      Some(<<"/", "\\", "e", "/", "a">>),
      Some(<<"/", "/", "e", "/", "a">>),
      Some(<<"/", ".", ".", "/", "a">>),
      Some(<<"/", "a", ":", "/", "/", "b">>),
      Some(<<"a">>) }

\* Redirect targets written in page.md frontmatter.
FrontmatterTargets ==
    { <<"/", "a">>, <<"/", "b">>, <<"/", "c">>, <<"/", "/", "e", "/", "a">> }

AliasOnly(target) ==
    Dashes \o <<"\n", "redirect", ":", " ">> \o target \o <<"\n">> \o Dashes
AliasWithBody(target) == AliasOnly(target) \o <<"\n", "Own", " ", "body">>

\* The contents a page.md may have.
Contents ==
    { <<"#", " ", "Pricing">>,
      Dashes \o <<"\n", "title", ":", " ", "T", "\n">> \o Dashes \o <<"\n", "Body">> }
        \cup {IF t = <<"/", "c">> THEN AliasWithBody(t) ELSE AliasOnly(t) :
                 t \in FrontmatterTargets}

\* readdir(appDir) of the handler's process.
HandlerListing == [ok |-> TRUE, names |-> << <<"x">>, <<"(", "g", ")">> >>]

\* location headers of 3xx answers.
Locations ==
    { NullStr,
      Some(<<"/", "b">>),
      Some(<<"/", "a", ":", "/", "/", "b">>),
      Some(<<"http", ":", "/", "/", "e", "/", "a">>),
      Some(<<"/", "/", "e", "/", "a">>) }

\* content-length headers: absent, honest and small, over the ceiling.
ContentLengths ==
    { NullStr, Some(<<"1", "0">>), Some(<<"5", "2", "4", "2", "8", "8", "1">>) }

\* Bodies: id names the page, len is html.length, blank is !html.trim().
NoBody == [id |-> "none", len |-> 0, blank |-> TRUE]
Bodies ==
    { [id |-> "blank", len |-> 2, blank |-> TRUE],
      [id |-> "page", len |-> 10, blank |-> FALSE],
      [id |-> "huge", len |-> MAX_HTML_SIZE + 1, blank |-> FALSE] }

Response(throws, st, loc, cl, body) ==
    [throws |-> throws, status |-> st, location |-> loc, contentLength |-> cl,
     body |-> body]

\* What fetch() may produce: a network error, a redirect, an error status,
\* a success.
Responses ==
    {Response(TRUE, 0, NullStr, NullStr, NoBody)}
        \cup {Response(FALSE, 302, l, NullStr, NoBody) : l \in Locations}
        \cup {Response(FALSE, 404, NullStr, NullStr, NoBody)}
        \cup {Response(FALSE, 200, NullStr, cl, b) : cl \in ContentLengths, b \in Bodies}

\* GeoConfig and the request headers that resolveMarkdown reads; the
\* configurations drawn set no preamble and no postamble.
InternalBase == <<"http", ":", "/", "/", "i">>
Cookie == <<"sid=1">>
HandlerRequests ==
    { [kind |-> "get", rawPath |-> NullStr, preamble |-> NullStr,
       postamble |-> NullStr, enableAutoConversion |-> e,
       internalBaseUrl |-> b, cookie |-> IF b.null THEN Some(Cookie) ELSE NullStr,
       listing |-> HandlerListing] :
         e \in BOOLEAN, b \in {NullStr, Some(InternalBase)} }

Range(s) == {s[i] : i \in DOMAIN s}

\* The content trees that agree with what was read so far and decide the
\* files a lookup of requestPath may read: of the files not read before, at
\* most one exists (the others are never reached or shadowed by it).
FsChoices(known, requestPath, listing) ==
    LET unknown == Candidates(requestPath, listing) \ DOMAIN known
    IN  {known @@ [c \in unknown |-> NullStr]}
            \cup {known @@ [c \in unknown |-> IF c = h THEN Some(x) ELSE NullStr] :
                     h \in unknown, x \in Contents}

----------------------------------------------------------------------------
(* The handler: GET and the steps of resolveMarkdown.                      *)

InitGet ==
    /\ op = "get"
    /\ pc = "idle"
    /\ req \in HandlerRequests
    /\ signal = NoSignal
    /\ path = <<>>
    /\ redirectDepth = 0
    /\ files = <<>>
    /\ trail = <<>>
    /\ result = NoResult
    /\ status = 0
    /\ responseBody = <<>>
    /\ globals = InitialGlobals
    /\ now = 0

\* The body of the 404 answer names the path the resolution ended at.
NotFoundBody_Resolved(inbound, resolved) ==
    <<"No markdown available for ">> \o resolved

\* The body of the 404 answer: the template's ${path} is GET's own path.
NotFoundBody(inbound, resolved) == <<"No markdown available for ">> \o inbound

\* The body built by markdownResponse; preamble and postamble are strings
\* or absent.
markdownResponse(content, preamble, postamble) ==
    LET withPre == IF Truthy(preamble)
                   THEN preamble.v \o <<"\n", "\n">> \o content ELSE content
    IN  IF Truthy(postamble)
        THEN withPre \o <<"\n", "\n">> \o postamble.v ELSE withPre

\* resolveMarkdown returns r and GET answers.
Finish(r) ==
    /\ result' = r
    /\ status' = IF r = NoResult THEN 404 ELSE 200
    /\ responseBody' = IF r = NoResult THEN NotFoundBody(req.rawPath.v, path)
                       ELSE markdownResponse(r.content, req.preamble, req.postamble)
    /\ pc' = "done"
    /\ UNCHANGED <<path, redirectDepth>>

\* The follow goes straight to the fetch of target.
Recurse_StraightToFetch(target) ==
    /\ path' = target
    /\ redirectDepth' = redirectDepth + 1
    /\ pc' = "fetch"
    /\ UNCHANGED <<result, status, responseBody>>

\* The follow leaves the depth as it is.
Recurse_SameDepth(target) ==
    /\ path' = target
    /\ redirectDepth' = redirectDepth
    /\ pc' = "resolve"
    /\ UNCHANGED <<result, status, responseBody>>

\* resolveMarkdown calls itself for target with the depth incremented.
Recurse(target) ==
    /\ path' = target
    /\ redirectDepth' = redirectDepth + 1
    /\ pc' = "resolve"
    /\ UNCHANGED <<result, status, responseBody>>

\* GET answers every raw path alike.
RejectsPath_Never(rawPath) == FALSE

\* GET refuses the raw path.
RejectsPath(rawPath) == ~isValidPath(rawPath)

\* GET up to the call of resolveMarkdown.
GET ==
    /\ op = "get"
    /\ pc = "idle"
    /\ \E rawPath \in RawPaths :
          /\ req' = [req EXCEPT !.rawPath = rawPath]
          /\ IF ~Truthy(rawPath)
             THEN /\ status' = 400
                  /\ responseBody' = <<"Missing path parameter">>
                  /\ pc' = "done"
                  /\ UNCHANGED <<path, redirectDepth>>
             ELSE IF RejectsPath(rawPath.v)
             THEN /\ status' = 400
                  /\ responseBody' = <<"Invalid path parameter">>
                  /\ pc' = "done"
                  /\ UNCHANGED <<path, redirectDepth>>
             ELSE /\ path' = rawPath.v
                  /\ redirectDepth' = 0
                  /\ pc' = "resolve"
                  /\ UNCHANGED <<status, responseBody>>
    /\ UNCHANGED <<globals, now, op, signal, files, trail, result>>

\* The fetch step is never switched off.
ConversionDisabled_Never(enableAutoConversion) == FALSE

\* if (!enableAutoConversion) return null
ConversionDisabled(enableAutoConversion) == ~enableAutoConversion

\* Step 1 of resolveMarkdown: findPageMd, parseFrontmatter and the branch
\* on the result.
Lookup ==
    /\ op = "get"
    /\ pc = "resolve"
    /\ \E fs \in FsChoices(files, path, req.listing) :
          LET found  == findPageMd(path, fs, req.listing)
              parsed == parseFrontmatter(found.content.v)
          IN  /\ files' = [p \in DOMAIN files \cup Range(found.reads) |-> fs[p]]
              /\ trail' = Append(trail,
                     [kind |-> "lookup", path |-> path, depth |-> redirectDepth,
                      reads |-> found.reads, listed |-> found.listed,
                      content |-> found.content])
              /\ IF ~found.content.null
                 THEN IF Truthy(parsed.redirect)
                      THEN IF FollowsFrontmatter(parsed.redirect.v, redirectDepth)
                           THEN Recurse(parsed.redirect.v)
                           ELSE Finish(NoResult)
                      ELSE Finish(CuratedResult(parsed.body))
                 ELSE IF ConversionDisabled(req.enableAutoConversion)
                      THEN Finish(NoResult)
                      ELSE /\ pc' = "fetch"
                           /\ UNCHANGED <<path, redirectDepth, result, status, responseBody>>
    /\ UNCHANGED <<globals, now, op, req, signal>>

FetchEntry(url, resp, bodyRead, converted) ==
    [kind |-> "fetch", path |-> path, depth |-> redirectDepth, url |-> url,
     mode |-> FetchRedirectMode, headers |-> FetchHeaders(req.cookie),
     resp |-> resp, bodyRead |-> bodyRead, converted |-> converted]

\* The handling of the answer of fetch().
HandleResponse(url, base, resp) ==
    IF resp.throws
    THEN /\ trail' = Append(trail, FetchEntry(url, resp, FALSE, FALSE))
         /\ Finish(NoResult)
    ELSE IF IsRedirectResponse(resp, redirectDepth)
    THEN /\ trail' = Append(trail, FetchEntry(url, resp, FALSE, FALSE))
         /\ IF Truthy(resp.location)
            THEN LET redirectUrl == ParseUrl(resp.location.v, url)
                 IN  IF redirectUrl.ok /\ RedirectAllowed(redirectUrl, base)
                     THEN Recurse(redirectUrl.pathname)
                     ELSE Finish(NoResult)
            ELSE Finish(NoResult)
    ELSE IF ~ResponseOk(resp) \/ DeclaredTooLarge(resp)
    THEN /\ trail' = Append(trail, FetchEntry(url, resp, FALSE, FALSE))
         /\ Finish(NoResult)
    ELSE IF BodyRejected(resp.body)
    THEN /\ trail' = Append(trail, FetchEntry(url, resp, TRUE, FALSE))
         /\ Finish(NoResult)
    ELSE /\ trail' = Append(trail, FetchEntry(url, resp, TRUE, TRUE))
         /\ Finish(ConvertedResult(resp.body))

\* Step 2 of resolveMarkdown: the internal fetch and the conversion.
Fetch ==
    /\ op = "get"
    /\ pc = "fetch"
    /\ LET base == ParseUrl(BaseUrlOf(req), NoBase)
           url  == ParseUrl(path, base)
       IN  IF ~base.ok \/ ~url.ok \/ HostMismatch(url, base)
           THEN /\ trail' = Append(trail,
                       [kind |-> "blocked", path |-> path, depth |-> redirectDepth,
                        url |-> url])
                /\ Finish(NoResult)
           ELSE \E resp \in Responses : HandleResponse(url, base, resp)
    /\ UNCHANGED <<globals, now, op, req, signal, files>>

Next == GET \/ Lookup \/ Fetch

Spec == InitGet /\ [][Next]_vars

----------------------------------------------------------------------------
(* One call of findPageMd (an export of src/fs.ts) on a request path and a *)
(* content tree drawn from the sets below; the paths include ones that     *)
(* the handler's validator would refuse.                                   *)

FindPaths ==
    { <<"/">>, <<"/", "a">>, <<"/", "a", "/", "b">>, <<"a">>,
      <<"/", "/", "a">>, <<"/", ".", "/", "a">>,
      <<"/", ".", ".">>,
      <<"/", ".", ".", "/", "x">>,
      <<"/", ".", ".", "/", "app", "/", "a">>,
      <<"/", ".", ".", "/", ".", ".", "/", "etc">>,
      <<"/", ".", ".", "/", ".", ".", "/", "cwd", "/", "app">> }

FindListings ==
    { [ok |-> FALSE, names |-> <<>>],
      [ok |-> TRUE, names |-> <<>>],
      [ok |-> TRUE, names |-> << <<"x">>, <<"(", "g", ")">>, <<"(", "h", ")">> >>],
      [ok |-> TRUE, names |-> << <<"(", "h", ")">>, <<"(", "g", ")">> >>] }

\* The content trees over the files that decide a lookup: each file is
\* absent or holds a text that names where it lies.
TreeOf(present) ==
    [f \in DOMAIN present |->
        IF present[f] THEN Some(<<"content-of">> \o f) ELSE NullStr]
Trees(requestPath, listing) ==
    {TreeOf(present) : present \in [Candidates(requestPath, listing) -> BOOLEAN]}

InitFind ==
    /\ op = "find"
    /\ pc = "idle"
    /\ \E p \in FindPaths, l \in FindListings :
          /\ req = [kind |-> "find", requestPath |-> p, listing |-> l]
          /\ files \in Trees(p, l)
    /\ signal = NoSignal
    /\ path = <<>>
    /\ redirectDepth = 0
    /\ trail = <<>>
    /\ result = NoResult
    /\ status = 0
    /\ responseBody = <<>>
    /\ globals = InitialGlobals
    /\ now = 0

FindPageMd ==
    /\ op = "find"
    /\ pc = "idle"
    /\ LET found == findPageMd(req.requestPath, files, req.listing)
       IN  /\ trail' = Append(trail,
                  [kind |-> "lookup", path |-> req.requestPath, depth |-> 0,
                   reads |-> found.reads, listed |-> found.listed,
                   content |-> found.content])
           /\ result' = IF found.content.null THEN NoResult
                         ELSE [type |-> "file", content |-> found.content.v]
    /\ pc' = "done"
    /\ UNCHANGED <<globals, now, op, req, signal, path, redirectDepth, files, status, responseBody>>

NextFind == FindPageMd

SpecFind == InitFind /\ [][NextFind]_vars

----------------------------------------------------------------------------
(* The middleware in front of the handler (src/middleware.ts): it skips    *)
(* requests that carry the internal-fetch marker or whose path is          *)
(* excluded, classifies the others with detectLlmSignal and rewrites a     *)
(* classified request to the handler's route, handing it the target path.  *)

GEO_ROUTE == <<"/", "api", "/", "geo">>
DEFAULT_EXCLUDE_PATHS ==
    << <<"/", "api", "/", "*">>, <<"/", "trpc", "/", "*">>,
       <<"/", "_next", "/", "*">>, <<"/", "monitoring", "*">> >>

\* Every pattern matches exactly only.
MatchesPattern_ExactOnly(pathname, pattern) == pathname = pattern

\* A pattern ending in "*" matches by prefix, any other pattern exactly.
MatchesPattern(pathname, pattern) ==
    IF EndsWith(pattern, <<"*">>)
    THEN StartsWith(pathname, SubSeq(pattern, 1, Len(pattern) - 1))
    ELSE pathname = pattern

IsExcluded(pathname, excludePaths) ==
    \E i \in 1..Len(excludePaths) : MatchesPattern(pathname, excludePaths[i])

\* The path whose markdown the handler is asked for.
TargetPath(sig, pathname) ==
    IF sig.type = "md-suffix" THEN sig.originalPath ELSE pathname

NoRewrite == [type |-> "null"]

\* The rewrite to the handler: the target path travels in the
\* x-llm-target-path header and in the path query parameter.
Rewrite(sig, pathname) ==
    [type |-> "rewrite", route |-> GEO_ROUTE,
     targetPathHeader |-> TargetPath(sig, pathname),
     pathParam |-> TargetPath(sig, pathname)]

\* The signal the middleware acts on: none for a marked or excluded request.
MiddlewareSignal(request, config) ==
    IF request.marker = INTERNAL_FETCH_HEADER THEN NoSignal
    ELSE IF IsExcluded(request.pathname, config.excludePaths) THEN NoSignal
    ELSE detectLlmSignal(request.pathname, request.accept, request.userAgent,
                         config.options)

createGeoMiddleware(request, config) ==
    LET sig == MiddlewareSignal(request, config)
    IN  IF sig = NoSignal THEN NoRewrite ELSE Rewrite(sig, request.pathname)

\* The configurations: the default one and one with its own exclude list.
MiddlewareConfigs ==
    { [excludePaths |-> DEFAULT_EXCLUDE_PATHS, options |-> DefaultDetectOptions],
      [excludePaths |-> << <<"/", "a">>, <<"/", "admin", "/", "*">> >>,
       options |-> DefaultDetectOptions] }

\* Request paths: pages, .md paths, excluded paths and near misses.
MiddlewarePaths ==
    { <<"/">>, <<"/", "a">>, <<"/", "a", ".", "m", "d">>, <<"/", ".", "m", "d">>,
      <<"/", "a", ".", "m", "d", ".", "m", "d">>,
      <<"/", "api", "/", "geo">>, <<"/", "api", "/", "x", ".", "m", "d">>,
      <<"/", "api", "x", ".", "m", "d">>, <<"/", "api">>,
      <<"/", "trpc", "/", "q">>, <<"/", "_next", "/", "s", ".", "m", "d">>,
      <<"/", "monitoring", "-", "x", ".", "m", "d">>,
      <<"/", "admin", "/", "x", ".", "m", "d">> }
MiddlewareAccepts ==
    {NullStr, Some(<<"text/markdown">>), Some(<<"text/html">>)}
MiddlewareUserAgents ==
    {NullStr, Some(<<"Mozilla", "/", "5.0">>), Some(<<"ClaudeBot", "/", "1.0">>)}

\* Requests of outside clients, which may send any header.
ExternalRequests ==
    { [kind |-> "middleware", origin |-> "external", pathname |-> p,
       marker |-> m, accept |-> a, userAgent |-> u, config |-> c] :
         p \in MiddlewarePaths, m \in {"", INTERNAL_FETCH_HEADER},
         a \in MiddlewareAccepts, u \in MiddlewareUserAgents,
         c \in MiddlewareConfigs }

\* The request that the handler's fetch of pathname sends to the origin.
FetchRequest(pathname, config) ==
    LET headers == FetchHeaders(NullStr)
    IN  [kind |-> "middleware", origin |-> "handler", pathname |-> pathname,
         marker |-> headers.marker, accept |-> Some(<<headers.accept>>),
         userAgent |-> Some(<<"node">>), config |-> config]

InitMiddleware ==
    /\ op = "middleware"
    /\ pc = "idle"
    /\ req \in ExternalRequests
    /\ signal = NoSignal
    /\ path = <<>>
    /\ redirectDepth = 0
    /\ files = <<>>
    /\ trail = <<>>
    /\ result = NoResult
    /\ status = 0
    /\ responseBody = <<>>
    /\ globals = InitialGlobals
    /\ now = 0

\* The middleware decides on the request.
Middleware ==
    /\ op = "middleware"
    /\ pc = "idle"
    /\ signal' = MiddlewareSignal(req, req.config)
    /\ globals' = IF req.marker = INTERNAL_FETCH_HEADER
                       \/ IsExcluded(req.pathname, req.config.excludePaths)
                   THEN globals
                   ELSE AfterDetect(globals, req.pathname, req.accept,
                                    req.userAgent, req.config.options)
    /\ result' = createGeoMiddleware(req, req.config)
    /\ pc' = "done"
    /\ UNCHANGED <<now, op, req, path, redirectDepth, files, trail, status,
                   responseBody>>

\* The handler, reached by a rewrite, accepts the target path, finds no
\* page.md and fetches the page from the origin, where the middleware
\* sees the request of the fetch.
HandlerFetch ==
    /\ op = "middleware"
    /\ pc = "done"
    /\ result.type = "rewrite"
    /\ ~RejectsPath(result.targetPathHeader)
    /\ trail' = Append(trail, [kind |-> "fetch", path |-> result.targetPathHeader])
    /\ req' = FetchRequest(result.targetPathHeader, req.config)
    /\ signal' = NoSignal
    /\ result' = NoResult
    /\ pc' = "idle"
    /\ UNCHANGED <<globals, now, op, path, redirectDepth, files, status, responseBody>>

NextMiddleware == Middleware \/ HandlerFetch

SpecMiddleware == InitMiddleware /\ [][NextMiddleware]_vars

----------------------------------------------------------------------------
(* One call of parseFrontmatter (an export of src/fs.ts) on a page.md      *)
(* text put together from an opening line, field lines, a closing line     *)
(* and a body.                                                             *)

Openings == { <<>>, Dashes \o <<"\n">>, Dashes \o <<"\r", "\n">>,
              <<"-">> \o Dashes \o <<"\n">> }
FieldLines ==
    { <<"title", ":", " ", "T", "\n">>,
      <<"title", ":", " ", "a">> \o Dashes \o <<"b", "\n">>,
      <<"redirect", ":", " ", "/", "b", "\n">>,
      <<" ", "redirect", " ", ":", " ", " ", "/", "c", " ", "\n">>,
      <<"redirect", ":", "\n">> }
Closings == { <<>>, Dashes, Dashes \o <<"\n">>, Dashes \o <<"\r", "\n">> }
BodyTexts == { <<>>, <<"Body">>, <<"\n", "Body">>,
               <<"Body", "\n">> \o Dashes \o <<"\n", "more">> }

FrontmatterContents ==
    { o \o f \o g \o c \o b :
        o \in Openings, f \in FieldLines \cup {<<>>}, g \in FieldLines \cup {<<>>},
        c \in Closings, b \in BodyTexts }

InitFrontmatter ==
    /\ op = "frontmatter"
    /\ pc = "idle"
    /\ \E c \in FrontmatterContents : req = [kind |-> "frontmatter", content |-> c]
    /\ signal = NoSignal
    /\ path = <<>>
    /\ redirectDepth = 0
    /\ files = <<>>
    /\ trail = <<>>
    /\ result = NoResult
    /\ status = 0
    /\ responseBody = <<>>
    /\ globals = InitialGlobals
    /\ now = 0

ParseFrontmatter ==
    /\ op = "frontmatter"
    /\ pc = "idle"
    /\ result' = parseFrontmatter(req.content)
    /\ pc' = "done"
    /\ UNCHANGED <<globals, now, op, req, signal, path, redirectDepth, files, trail, status,
                   responseBody>>

NextFrontmatter == ParseFrontmatter

SpecFrontmatter == InitFrontmatter /\ [][NextFrontmatter]_vars

----------------------------------------------------------------------------
(* One call of isValidPath on a path of at most MaxPathLen characters.     *)

MaxPathLen == 4
PathChars == {"/", ".", ":", "a"}
ValidatorPaths == SeqUpTo(PathChars, MaxPathLen)

InitValidate ==
    /\ op = "validate"
    /\ pc = "idle"
    /\ \E p \in ValidatorPaths : req = [kind |-> "validate", path |-> p]
    /\ signal = NoSignal
    /\ path = <<>>
    /\ redirectDepth = 0
    /\ files = <<>>
    /\ trail = <<>>
    /\ result = NoResult
    /\ status = 0
    /\ responseBody = <<>>
    /\ globals = InitialGlobals
    /\ now = 0

Validate ==
    /\ op = "validate"
    /\ pc = "idle"
    /\ result' = [type |-> "boolean", value |-> isValidPath(req.path)]
    /\ pc' = "done"
    /\ UNCHANGED <<globals, now, op, req, signal, path, redirectDepth, files, trail, status,
                   responseBody>>

NextValidate == Validate

SpecValidate == InitValidate /\ [][NextValidate]_vars

----------------------------------------------------------------------------
(* Properties of the handler, checked under Spec.                          *)

Resolved == op = "get" /\ pc = "done" /\ status # 400
Fetches == {i \in 1..Len(trail) : trail[i].kind = "fetch"}
Lookups == {i \in 1..Len(trail) : trail[i].kind = "lookup"}
Blocked == {i \in 1..Len(trail) : trail[i].kind = "blocked"}
IsLast(i) == i = Len(trail)

\* The host of the origin base URL: the internal base when configured,
\* otherwise the host of the request.
OriginHost == IF req.internalBaseUrl.null THEN <<"o">> ELSE <<"i">>

\* C3: every path for which a fetch is issued passes the path validator,
\* be it the inbound path, a frontmatter target or the path of a followed
\* HTTP redirect.
C3_FetchedPathsValid ==
    op = "get" => \A i \in Fetches : isValidPath(trail[i].path)

\* C4: every fetch targets the host of the origin base URL with manual
\* redirect handling; when the URL built from the base and the logical path
\* has another host, no fetch is issued and the attempt returns not-found.
C4_SameHostFetch ==
    op = "get" =>
        /\ \A i \in Fetches :
              trail[i].url.host = OriginHost /\ trail[i].mode = "manual"
        /\ \A i \in Blocked :
              IsLast(i) /\ pc = "done" /\ result = NoResult /\ status = 404

\* A valid inbound path whose URL has a foreign host was refused unfetched.
C4_Witness ==
    /\ op = "get"
    /\ \E i \in Blocked :
          /\ trail[i].url.ok
          /\ trail[i].url.host = <<"e">>
          /\ isValidPath(trail[i].path)
    /\ Fetches = {}
    /\ result = NoResult

\* The location of a 3xx answer resolves to a host other than the origin.
ForeignRedirect(entry) ==
    /\ ~entry.resp.throws
    /\ entry.resp.status >= 300 /\ entry.resp.status < 400
    /\ Truthy(entry.resp.location)
    /\ ParseUrl(entry.resp.location.v, entry.url).ok
    /\ ParseUrl(entry.resp.location.v, entry.url).host # OriginHost

\* C5: a 3xx answer whose location resolves to a foreign host ends the
\* resolution as not-found: no fetch follows it, and every fetch made (each
\* carrying the cookies) went to the origin host.
C5_ForeignRedirectEnds ==
    op = "get" =>
        \A i \in Fetches :
            ForeignRedirect(trail[i]) =>
                /\ IsLast(i) /\ pc = "done" /\ result = NoResult
                /\ \A j \in Fetches : trail[j].url.host = OriginHost

\* A fetch that forwarded the cookie was answered by a redirect to host e.
C5_Witness ==
    /\ op = "get"
    /\ \E i \in Fetches :
          /\ ForeignRedirect(trail[i])
          /\ trail[i].depth < MAX_REDIRECTS
          /\ ~trail[i].headers.cookie.null
    /\ result = NoResult
    /\ pc = "done"

\* The resolution has so far consisted of page.md lookups only, each of
\* which found a file: a chain of curated artifacts.
CuratedChain ==
    /\ op = "get"
    /\ trail # <<>>
    /\ \A i \in 1..Len(trail) : trail[i].kind = "lookup" /\ ~trail[i].content.null
LastArtifact == parseFrontmatter(trail[Len(trail)].content.v)
Follows == Len(trail) - 1

\* C6: a chain of curated artifacts never has more than 3 follows; when it
\* ends at an artifact without a redirect it is resolved to that artifact's
\* body; the resolution stops at an artifact that names a valid redirect
\* only when 3 follows were made, and then yields not-found.
C6_ChainBound ==
    CuratedChain =>
        /\ Follows <= 3
        /\ (Resolved /\ ~Truthy(LastArtifact.redirect)) =>
              /\ result.type = "content"
              /\ result.content = LastArtifact.body
        /\ (Resolved /\ Truthy(LastArtifact.redirect)
                /\ isValidPath(LastArtifact.redirect.v)) =>
              /\ Follows = 3
              /\ result = NoResult

\* A -> B -> C resolved with exactly 2 follows.
C6_Witness ==
    /\ CuratedChain
    /\ Resolved
    /\ Follows = 2
    /\ redirectDepth = 2
    /\ result.type = "content"
    /\ result.content = LastArtifact.body

\* The number of the lookup trail[i] among the lookups.
LookupNumber(i) == Cardinality({j \in Lookups : j <= i})

\* C7: a resolution makes at most 4 attempts, hence at most 4 lookups and 4
\* fetches; the hop counter is shared by both kinds of follow, grows by one
\* per follow and never passes 3.
C7_BoundedAttempts ==
    op = "get" =>
        /\ Cardinality(Lookups) <= 4
        /\ Cardinality(Fetches) <= 4
        /\ redirectDepth <= 3
        /\ \A i \in Lookups : trail[i].depth = LookupNumber(i) - 1
        /\ \A i \in Fetches \cup Blocked : trail[i].depth = LookupNumber(i) - 1
        /\ pc = "resolve" => redirectDepth = Cardinality(Lookups)
        /\ pc \in {"fetch", "done"} /\ trail # <<>> =>
              redirectDepth = Cardinality(Lookups) - 1
        /\ Len(trail) <= 8

\* A chain mixing a frontmatter follow and an HTTP follow used up the
\* bound: the 4th attempt was answered by a same-origin redirect that was
\* not followed.
C7_Witness ==
    /\ Resolved
    /\ redirectDepth = 3
    /\ Cardinality(Lookups) = 4
    /\ \E i \in Lookups : ~trail[i].content.null
    /\ \E i \in Fetches : trail[i].depth < 3
    /\ trail[Len(trail)].kind = "fetch"
    /\ trail[Len(trail)].resp.status = 302
    /\ trail[Len(trail)].resp.location = Some(<<"/", "b">>)
    /\ result = NoResult

\* C8: content that is the body of a curated artifact carries the public
\* cache policy; content that is the conversion of a fetched page carries
\* the private one.
C8_CachePolicy ==
    (Resolved /\ result # NoResult) =>
        LET last == trail[Len(trail)]
        IN  /\ last.kind \in {"lookup", "fetch"}
            /\ last.kind = "lookup" =>
                  /\ result.content = parseFrontmatter(last.content.v).body
                  /\ result.cacheControl = "public, max-age=300, s-maxage=3600"
            /\ last.kind = "fetch" =>
                  /\ result.content = htmlToMarkdown(last.resp.body)
                  /\ result.cacheControl = "private, max-age=300"

\* The body of a curated artifact was served after a followed redirect.
C8_Witness ==
    /\ Resolved
    /\ result # NoResult
    /\ trail[Len(trail)].kind = "lookup"
    /\ redirectDepth > 0
    /\ result.cacheControl = PublicCacheControl

\* The declared length of a response, 0 when absent or not a number.
Declared(resp) ==
    IF Truthy(resp.contentLength) /\ ~parseInt(resp.contentLength.v).nan
    THEN parseInt(resp.contentLength.v).n ELSE 0
Ceiling == 5 * 1024 * 1024

\* C9: a successful response that declares more than 5 MiB is rejected
\* without reading its body; one whose body is longer than 5 MiB is rejected
\* whatever it declared; neither reaches the converter, and the outcome is
\* not-found.
C9_SizeCeiling ==
    op = "get" =>
        \A i \in Fetches :
            LET e == trail[i]
            IN  (~e.resp.throws /\ e.resp.status >= 200 /\ e.resp.status <= 299) =>
                  /\ Declared(e.resp) > Ceiling =>
                        ~e.bodyRead /\ ~e.converted /\ pc = "done" /\ result = NoResult
                  /\ e.resp.body.len > Ceiling =>
                        ~e.converted /\ pc = "done" /\ result = NoResult

\* A body over the ceiling behind an understated content-length was read
\* and rejected.
C9_Witness ==
    /\ Resolved
    /\ \E i \in Fetches :
          /\ trail[i].resp.status = 200
          /\ Declared(trail[i].resp) = 10
          /\ trail[i].resp.body.len > Ceiling
          /\ trail[i].bodyRead
    /\ result = NoResult

----------------------------------------------------------------------------
(* Properties of findPageMd, checked under SpecFind.                       *)

\* filePath is the content root or lies under it.
UnderRoot(filePath) ==
    \/ filePath = AppDir
    \/ /\ Len(filePath) > Len(AppDir)
       /\ SubSeq(filePath, 1, Len(AppDir)) = AppDir
       /\ filePath[Len(AppDir) + 1] = "/"

\* C10: findPageMd reads no file outside the content root: when the direct
\* candidate escapes, nothing is read or listed and the result is
\* not-found; an escaping wrapper-directory candidate is not read.
C10_Containment ==
    (op = "find" /\ pc = "done") =>
        LET e == trail[1]
        IN  /\ \A k \in 1..Len(e.reads) : UnderRoot(e.reads[k])
            /\ ~UnderRoot(DirectPath(req.requestPath)) =>
                  e.reads = <<>> /\ ~e.listed /\ result = NoResult

\* The direct candidate was read and missed, a wrapper-directory candidate
\* that escapes the root and exists was skipped, and the lookup went on.
C10_Witness ==
    /\ op = "find" /\ pc = "done"
    /\ UnderRoot(DirectPath(req.requestPath))
    /\ trail[1].listed
    /\ \E i \in 1..Len(req.listing.names) :
          LET g == GroupPath(req.listing.names[i], req.requestPath)
          IN  /\ IsRouteGroup(req.listing.names[i])
              /\ ~UnderRoot(g)
              /\ ~files[g].null
              /\ g \notin Range(trail[1].reads)

----------------------------------------------------------------------------
(* Properties of detectLlmSignal, checked under SpecDetect.                *)

MdSuffix == <<".", "m", "d">>
Detected == op = "detect" /\ pc = "done"

\* The Accept header has an entry whose media type is text/markdown.
NamesMarkdown(accept) ==
    /\ ~accept.null
    /\ \E part \in Range(Split(accept.v, ",")) : IsMarkdownEntry(Trim(part))

\* C1: with the suffix check enabled, a path ending in ".md" yields the
\* md-suffix signal and no other variant, whatever the Accept header and
\* the user agent are.
C1_SuffixWins ==
    (Detected /\ req.options.enableMdSuffix /\ EndsWith(req.pathname, MdSuffix))
        => (signal.type = "md-suffix" /\ DOMAIN signal = {"type", "originalPath"})

\* A ".md" request whose Accept header names text/markdown and whose user
\* agent holds a bot pattern was classified md-suffix.
C1_Witness ==
    /\ Detected
    /\ req.options.enableMdSuffix
    /\ req.options.enableUserAgentDetection
    /\ EndsWith(req.pathname, MdSuffix)
    /\ NamesMarkdown(req.accept)
    /\ ~req.userAgent.null /\ Includes(req.userAgent.v, <<"ClaudeBot">>)
    /\ signal.type = "md-suffix"

\* C2: for a path not ending in ".md", an Accept header with an entry whose
\* media type is text/markdown yields the accept-header signal, whatever the
\* quality of the entry and the user agent are.
C2_AcceptWhenNamed ==
    (Detected /\ ~EndsWith(req.pathname, MdSuffix) /\ NamesMarkdown(req.accept))
        => signal.type = "accept-header"

----------------------------------------------------------------------------
(* Properties of the handler's answers, checked under Spec.                *)

Answered == op = "get" /\ pc = "done"
LastEntry == trail[Len(trail)]

\* C11: a request whose target path is missing or fails the validator is
\* answered 400 and nothing was looked up, listed or fetched for it; a
\* valid path is answered 200 with the resolved content when content
\* resolves and 404 otherwise.
C11_StatusByPath ==
    Answered =>
        IF ~Truthy(req.rawPath) \/ ~isValidPath(req.rawPath.v)
        THEN status = 400 /\ trail = <<>> /\ files = <<>> /\ result = NoResult
        ELSE /\ trail # <<>>
             /\ status = (IF result = NoResult THEN 404 ELSE 200)
             /\ status = 200 => responseBody = result.content

\* A path with a '..' segment was answered 400.
C11_Witness ==
    /\ Answered
    /\ req.rawPath = Some(<<"/", ".", ".", "/", "a">>)
    /\ status = 400
    /\ trail = <<>>

\* The ways a resolution is refused for security.
HostRefused == LastEntry.kind = "blocked"
ForeignRefused == LastEntry.kind = "fetch" /\ ForeignRedirect(LastEntry)
HopBoundRefused ==
    /\ LastEntry.depth = 3
    /\ \/ /\ LastEntry.kind = "lookup"
          /\ ~LastEntry.content.null
          /\ Truthy(parseFrontmatter(LastEntry.content.v).redirect)
          /\ isValidPath(parseFrontmatter(LastEntry.content.v).redirect.v)
       \/ /\ LastEntry.kind = "fetch"
          /\ ~LastEntry.resp.throws
          /\ LastEntry.resp.status >= 300 /\ LastEntry.resp.status < 400
OversizeRefused ==
    /\ LastEntry.kind = "fetch"
    /\ ~LastEntry.resp.throws
    /\ LastEntry.resp.status = 200
    /\ \/ LastEntry.resp.contentLength = Some(<<"5", "2", "4", "2", "8", "8", "1">>)
       \/ LastEntry.resp.body.len > Ceiling
InvalidTargetRefused ==
    /\ LastEntry.kind = "lookup"
    /\ ~LastEntry.content.null
    /\ Truthy(parseFrontmatter(LastEntry.content.v).redirect)
    /\ ~isValidPath(parseFrontmatter(LastEntry.content.v).redirect.v)
Refused ==
    HostRefused \/ ForeignRefused \/ HopBoundRefused \/ OversizeRefused
        \/ InvalidTargetRefused

\* What the caller gets for a genuine miss of requestedPath.
MissBody(requestedPath) == <<"No markdown available for ">> \o requestedPath

\* C12: a resolution refused for security (host mismatch, foreign redirect,
\* hop bound, oversized response, invalid frontmatter target) is answered
\* as a genuine miss of the requested path is: status 404 and the body
\* that names the requested path only.
C12_RefusalLikeMiss ==
    (Resolved /\ Refused) =>
        /\ result = NoResult
        /\ status = 404
        /\ responseBody = MissBody(req.rawPath.v)

\* A request that was redirected to another path and then refused.
C12_Witness ==
    /\ Resolved
    /\ Refused
    /\ path # req.rawPath.v
    /\ status = 404

\* The fetch trail[i] failed: it threw, was answered neither 2xx nor by a
\* 3xx that was followed (the resolution went on after it), or its body
\* was blank.
FailedFetch(i) ==
    LET e == trail[i]
    IN  \/ e.resp.throws
        \/ /\ ~(e.resp.status >= 200 /\ e.resp.status <= 299)
           /\ ~(/\ e.resp.status >= 300 /\ e.resp.status < 400
                /\ ~(IsLast(i) /\ pc = "done"))
        \/ e.bodyRead /\ e.resp.body.blank

\* C13: a fetch that throws, is answered by an error status or an
\* unfollowed 3xx, or returns a blank body ends the resolution as
\* not-found (404, nothing converted, nothing after it), and no attempt
\* issues two fetches.
C13_FailedFetchEnds ==
    op = "get" =>
        /\ \A i \in Fetches :
              FailedFetch(i) =>
                  /\ IsLast(i)
                  /\ pc = "done"
                  /\ result = NoResult
                  /\ status = 404
                  /\ ~trail[i].converted
        /\ \A i, j \in Fetches : i # j => trail[i].depth # trail[j].depth

\* A fetch threw after an earlier fetch had been redirected.
C13_Witness ==
    /\ Resolved
    /\ LastEntry.kind = "fetch"
    /\ LastEntry.resp.throws
    /\ LastEntry.depth > 0
    /\ result = NoResult

----------------------------------------------------------------------------
(* Properties of the middleware, checked under SpecMiddleware.             *)

Decided == op = "middleware" /\ pc = "done"

\* C14: the request of the handler's fetch carries the internal-fetch
\* marker; the middleware rewrites no request that carries it, whatever
\* its path, Accept header and user agent; so the handler's fetch is not
\* rewritten back to the handler and one outside request leads to at most
\* one fetch.
C14_NoLoop ==
    op = "middleware" =>
        /\ req.origin = "handler" => req.marker = INTERNAL_FETCH_HEADER
        /\ (pc = "done" /\ req.marker = INTERNAL_FETCH_HEADER) => result = NoRewrite
        /\ Len(trail) <= 1

\* The handler's fetch of a path ending in ".md" was passed through.
C14_Witness ==
    /\ Decided
    /\ req.origin = "handler"
    /\ req.pathname = <<"/", "a", ".", "m", "d">>
    /\ result = NoRewrite

\* C20: the target path of a rewrite is the same in the header and in the
\* query parameter; for an md-suffix signal it is the request path without
\* its trailing ".md" ("/.md" gives "/"), for an accept-header or
\* user-agent signal the request path itself.
C20_TargetPath ==
    (Decided /\ result.type = "rewrite") =>
        /\ result.targetPathHeader = result.pathParam
        /\ signal.type \in {"md-suffix", "accept-header", "user-agent"}
        /\ signal.type = "md-suffix" =>
              result.pathParam \o <<".", "m", "d">> = req.pathname
        /\ signal.type # "md-suffix" => result.pathParam = req.pathname

\* "/.md" was rewritten with target "/".
C20_Witness ==
    /\ Decided
    /\ req.pathname = <<"/", ".", "m", "d">>
    /\ signal.type = "md-suffix"
    /\ result.type = "rewrite"
    /\ result.pathParam = <<"/">>

----------------------------------------------------------------------------
(* Properties of the follows of resolveMarkdown, checked under Spec.       *)

\* The attempt that follows trail[i] resolves target one hop deeper: it is
\* about to look target up, or its lookup is the next step made.
FollowedTo(i, target) ==
    IF IsLast(i)
    THEN pc = "resolve" /\ path = target /\ redirectDepth = trail[i].depth + 1
    ELSE /\ trail[i + 1].kind = "lookup"
         /\ trail[i + 1].path = target
         /\ trail[i + 1].depth = trail[i].depth + 1

\* trail[i] is a fetch answered by a 3xx to a same-origin location below
\* the hop bound.
SameOriginRedirect(i) ==
    /\ trail[i].kind = "fetch"
    /\ ~trail[i].resp.throws
    /\ trail[i].resp.status >= 300 /\ trail[i].resp.status < 400
    /\ trail[i].depth < 3
    /\ Truthy(trail[i].resp.location)
    /\ ParseUrl(trail[i].resp.location.v, trail[i].url).ok
    /\ ParseUrl(trail[i].resp.location.v, trail[i].url).host = OriginHost

\* What was served is the body of the page.md that the lookup trail[i]
\* found.
Serves(i) ==
    /\ pc = "done"
    /\ status = 200
    /\ result.content = parseFrontmatter(trail[i].content.v).body
    /\ responseBody = result.content

\* C15: after a 3xx answer to a same-origin location below the hop bound
\* the next step is the page.md lookup of the location's path, one hop
\* deeper, before any fetch of it; a page.md without a redirect found by
\* that lookup is what is served.
C15_RedirectRunsPipeline ==
    op = "get" =>
        \A i \in 1..Len(trail) :
            SameOriginRedirect(i) =>
                /\ FollowedTo(i, ParseUrl(trail[i].resp.location.v, trail[i].url).pathname)
                /\ (/\ ~IsLast(i)
                    /\ ~trail[i + 1].content.null
                    /\ ~Truthy(parseFrontmatter(trail[i + 1].content.v).redirect)) =>
                       IsLast(i + 1) /\ Serves(i + 1)

\* "/" was fetched, answered by a redirect to "/b", and the page.md of
\* "/b" was served.
C15_Witness ==
    /\ Resolved
    /\ Len(trail) = 3
    /\ SameOriginRedirect(2)
    /\ trail[3].kind = "lookup" /\ trail[3].path = <<"/", "b">>
    /\ Serves(3)

\* trail[i] is a lookup that found a page.md naming a valid redirect,
\* below the hop bound.
AliasFound(i) ==
    /\ trail[i].kind = "lookup"
    /\ ~trail[i].content.null
    /\ Truthy(parseFrontmatter(trail[i].content.v).redirect)
    /\ isValidPath(parseFrontmatter(trail[i].content.v).redirect.v)
    /\ trail[i].depth < 3

\* C16: a page.md naming a valid redirect T, found at hop h below 3, hands
\* the resolution over to T at hop h+1; the outcome is that of the last
\* step made (the body of a page.md without redirect, the conversion of a
\* fetched page, or not-found), so the fetch fallback serves T when T has
\* no page.md, and the alias's own body is never served.
C16_AliasYieldsTarget ==
    op = "get" =>
        /\ \A i \in 1..Len(trail) :
              AliasFound(i) =>
                  FollowedTo(i, parseFrontmatter(trail[i].content.v).redirect.v)
        /\ (Resolved /\ result # NoResult /\ LastEntry.kind = "lookup") =>
              /\ ~LastEntry.content.null
              /\ ~Truthy(parseFrontmatter(LastEntry.content.v).redirect)
              /\ Serves(Len(trail))
        /\ (Resolved /\ result # NoResult /\ LastEntry.kind = "fetch") =>
              /\ LastEntry.converted
              /\ LastEntry.path = path
              /\ result.content = htmlToMarkdown(LastEntry.resp.body)
        /\ Resolved => LastEntry.depth = redirectDepth
        /\ (Resolved /\ result # NoResult) => result.content # <<"Own", " ", "body">>

\* The alias at "/" names "/c", "/c" has no page.md, and the conversion of
\* the fetched page of "/c" was served.
C16_Witness ==
    /\ Resolved
    /\ Len(trail) = 3
    /\ AliasFound(1)
    /\ trail[2].kind = "lookup" /\ trail[2].content.null
    /\ trail[2].path = <<"/", "c">>
    /\ trail[3].kind = "fetch" /\ trail[3].path = <<"/", "c">>
    /\ trail[3].depth = 1
    /\ trail[3].converted
    /\ status = 200

----------------------------------------------------------------------------
(* The order of the lookup, checked under SpecFind.                        *)

Found == op = "find" /\ pc = "done"
Holds(filePath) == filePath \in DOMAIN files /\ ~files[filePath].null
Parenthesized(name) == name # <<>> /\ name[1] = "(" /\ name[Len(name)] = ")"

\* The places in the directory listing of the wrapper directories that
\* hold the page.md of the request path inside the content root.
WrapperHits ==
    {i \in 1..Len(req.listing.names) :
        /\ Parenthesized(req.listing.names[i])
        /\ UnderRoot(GroupPath(req.listing.names[i], req.requestPath))
        /\ Holds(GroupPath(req.listing.names[i], req.requestPath))}
FirstHit == CHOOSE i \in WrapperHits : \A j \in WrapperHits : i <= j

\* C17: for a request path whose direct candidate lies in the content
\* root, findPageMd returns the page.md at the direct path when it exists,
\* whatever the wrapper directories hold; otherwise that of the first
\* directory in listing order that is named "(...)" and holds the path;
\* otherwise nothing; no file of a directory with another name is read.
C17_LookupOrder ==
    (Found /\ UnderRoot(DirectPath(req.requestPath))) =>
        LET direct == DirectPath(req.requestPath)
            names  == req.listing.names
            reads  == trail[1].reads
        IN  /\ Holds(direct) =>
                  /\ result = [type |-> "file", content |-> files[direct].v]
                  /\ reads = <<direct>>
            /\ (~Holds(direct) /\ WrapperHits # {}) =>
                  result = [type |-> "file",
                            content |-> files[GroupPath(names[FirstHit],
                                                        req.requestPath)].v]
            /\ (~Holds(direct) /\ WrapperHits = {}) => result = NoResult
            /\ \A k \in 1..Len(reads) :
                  \/ reads[k] = direct
                  \/ \E i \in 1..Len(names) :
                        /\ Parenthesized(names[i])
                        /\ reads[k] = GroupPath(names[i], req.requestPath)

\* "/a" has no direct page.md; "(h)" is listed before "(g)", both hold
\* a/page.md, and so does the directory "x" in the other listing: the file
\* of the first wrapper directory was returned.
C17_Witness ==
    /\ Found
    /\ req.requestPath = <<"/", "a">>
    /\ req.listing.names = << <<"(", "h", ")">>, <<"(", "g", ")">> >>
    /\ ~Holds(DirectPath(req.requestPath))
    /\ WrapperHits = {1, 2}
    /\ result.content = files[GroupPath(<<"(", "h", ")">>, req.requestPath)].v

----------------------------------------------------------------------------
(* parseFrontmatter against the reading of a page.md by lines, checked     *)
(* under SpecFrontmatter.                                                  *)

Parsed == op = "frontmatter" /\ pc = "done"

\* The lines of a text, without their line breaks ("\n" or "\r\n").
StripCr(line) ==
    IF line # <<>> /\ line[Len(line)] = "\r" THEN SubSeq(line, 1, Len(line) - 1)
    ELSE line
LinesOf(text) == [i \in 1..Len(Split(text, "\n")) |-> StripCr(Split(text, "\n")[i])]

\* The places of the "---" lines after the first line.
ClosingLines(text) == {i \in 2..Len(LinesOf(text)) : LinesOf(text)[i] = Dashes}
ClosingLine(text) == CHOOSE i \in ClosingLines(text) : \A j \in ClosingLines(text) : i <= j

\* The value of a "redirect:" field line, trimmed; <<>> for another line.
FieldValue(line) ==
    LET t == Trim(line)
    IN  IF t # <<>> /\ t[1] = "redirect" /\ TrimStart(Tail(t)) # <<>>
           /\ TrimStart(Tail(t))[1] = ":"
        THEN Trim(Tail(TrimStart(Tail(t))))
        ELSE <<>>
RedirectFields(text) ==
    {i \in 2..(ClosingLine(text) - 1) : FieldValue(LinesOf(text)[i]) # <<>>}

\* The text after the line break that ends line number n.
RECURSIVE AfterLine(_, _)
AfterLine(text, n) ==
    IF n = 0 THEN text
    ELSE LET i == CHOOSE j \in 1..Len(text) :
                      text[j] = "\n" /\ \A k \in 1..(j - 1) : text[k] # "\n"
         IN  AfterLine(DropFirst(text, i), n - 1)

\* C18: a text whose first line is not "---" has no redirect and is its
\* own body; a text whose first line is "---" and that has a later "---"
\* line has the trimmed value of the first redirect field between the two
\* as its redirect (none when there is no such field) and the text after
\* the closing line as its body.
C18_ParsesBlock ==
    Parsed =>
        LET text  == req.content
            lines == LinesOf(text)
        IN  /\ lines[1] # Dashes =>
                  result = [redirect |-> NullStr, body |-> text]
            /\ (lines[1] = Dashes /\ ClosingLines(text) # {}) =>
                  /\ result.redirect =
                        (IF RedirectFields(text) = {} THEN NullStr
                         ELSE Some(FieldValue(lines[CHOOSE i \in RedirectFields(text) :
                                     \A j \in RedirectFields(text) : i <= j])))
                  /\ result.body =
                        (IF ClosingLine(text) = Len(lines) THEN <<>>
                         ELSE AfterLine(text, ClosingLine(text)))

----------------------------------------------------------------------------
(* The path validator, checked under SpecValidate.                         *)

Validated == op = "validate" /\ pc = "done"

\* p[i..j] is a whole segment: bounded by "/" or the ends of p, with no
\* "/" inside.
WholeSegment(p, i, j) ==
    /\ (i = 1 \/ p[i - 1] = "/")
    /\ (j = Len(p) \/ p[j + 1] = "/")
    /\ \A k \in i..j : p[k] # "/"

\* The paths the validator is to refuse.
Unsafe(p) ==
    \/ p = <<>>
    \/ p # <<>> /\ p[1] # "/"
    \/ Len(p) >= 2 /\ p[1] = "/" /\ p[2] = "/"
    \/ \E i \in 1..(Len(p) - 2) : p[i] = ":" /\ p[i + 1] = "/" /\ p[i + 2] = "/"
    \/ \E i \in 1..Len(p) : p[i] = "." /\ WholeSegment(p, i, i)
    \/ \E i \in 1..(Len(p) - 1) :
          p[i] = "." /\ p[i + 1] = "." /\ WholeSegment(p, i, i + 1)

\* C19: isValidPath returns false for every path that is empty, does not
\* start with "/", starts with "//", contains "://" or has a segment "."
\* or "..", and true for every other path.
C19_ValidatorExact ==
    Validated => result.value = ~Unsafe(req.path)

\* "/a/." was refused for its last segment.
C19_Witness ==
    /\ Validated
    /\ req.path = <<"/", "a", "/", ".">>
    /\ ~result.value

----------------------------------------------------------------------------
(* The quality of the accept-header signal, checked under SpecAccept.      *)

AcceptDetected == op = "accept" /\ pc = "done"

\* The number a q value stands for, in tenths; 10 (that is 1) for an
\* entry without q and for a q value that is no number.
QualityOf(q) ==
    IF q = <<"0">> THEN 0
    ELSE IF q = <<"0", ".", "8">> THEN 8
    ELSE IF q = <<"1">> THEN 10
    ELSE IF q = <<"5">> THEN 50
    ELSE IF q = <<"-", "1">> THEN 0 - 10
    ELSE 10

MarkdownEntries ==
    {i \in 1..Len(req.entries) :
        req.entries[i].media \in {<<"text/markdown">>, <<"TEXT/Markdown">>}}
FirstMarkdownEntry ==
    req.entries[CHOOSE i \in MarkdownEntries : \A j \in MarkdownEntries : i <= j]

\* C21: the quality of an accept-header signal is the q value of the first
\* entry of the Accept header whose media type is text/markdown in any
\* letter case, and 1 when that entry has no q or its q is no number.
C21_QualityOfFirstEntry ==
    (AcceptDetected /\ signal.type = "accept-header") =>
        /\ MarkdownEntries # {}
        /\ signal.quality = QualityOf(FirstMarkdownEntry.q)

\* "text/html;q=0.8, TEXT/Markdown;q=x" gave quality 1.
C21_Witness ==
    /\ AcceptDetected
    /\ req.entries = << [media |-> <<"text/html">>, q |-> <<"0", ".", "8">>],
                        [media |-> <<"TEXT/Markdown">>, q |-> <<"x">>] >>
    /\ signal = [type |-> "accept-header", quality |-> 10]

\* C22: the quality of every accept-header signal lies between 0 and 1.
C22_QualityInRange ==
    (AcceptDetected /\ signal.type = "accept-header") =>
        signal.quality >= 0 /\ signal.quality <= 10

----------------------------------------------------------------------------
(* The user-agent step of detectLlmSignal, checked under SpecDetect.       *)

\* The patterns in the order built-in list, then additional patterns; each
\* is one chunk, and it occurs in the user agent when it is one of the
\* user agent's chunks.
PatternsInOrder == BOT_USER_AGENTS \o req.options.additionalBotUserAgents
Occurring ==
    {i \in 1..Len(PatternsInOrder) :
        /\ ~req.userAgent.null
        /\ \E k \in 1..Len(req.userAgent.v) :
              <<req.userAgent.v[k]>> = PatternsInOrder[i]}

\* C23: with user-agent detection enabled and neither the suffix nor the
\* Accept check matching, the result is the user-agent signal of the first
\* pattern, built-in ones before additional ones, that occurs in the user
\* agent, and null when none occurs; the stored built-in list is as it
\* was before the call.
C23_FirstPatternInOrder ==
    Detected =>
        /\ (/\ req.options.enableUserAgentDetection
            /\ signal.type \notin {"md-suffix", "accept-header"}) =>
               IF Occurring = {} THEN signal = NoSignal
               ELSE signal =
                      [type |-> "user-agent",
                       botName |-> PatternsInOrder[
                           CHOOSE i \in Occurring : \A j \in Occurring : i <= j]]
        /\ globals.BOT_USER_AGENTS = BOT_USER_AGENTS

\* "MyCustomBot/2.0 GPTBot" with the additional pattern MyCustomBot was
\* named GPTBot, the built-in pattern.
C23_Witness ==
    /\ Detected
    /\ req.userAgent = Some(<<"MyCustomBot", "/", "2.0", " ", "GPTBot">>)
    /\ req.options.additionalBotUserAgents = << <<"MyCustomBot">> >>
    /\ signal = [type |-> "user-agent", botName |-> <<"GPTBot">>]

----------------------------------------------------------------------------
(* The exclusions of the middleware, checked under SpecMiddleware.         *)

\* The request path begins with one of the default excluded prefixes.
DefaultExcluded(p) ==
    \/ Len(p) >= 3 /\ p[1] = "/" /\ p[2] \in {"api", "trpc", "_next"} /\ p[3] = "/"
    \/ Len(p) >= 2 /\ p[1] = "/" /\ p[2] = "monitoring"

\* C24: with the default exclude list every request whose path begins
\* with "/api/", "/trpc/", "/_next/" or "/monitoring" is passed through
\* unclassified, whatever its suffix, Accept header and user agent, and so
\* is the handler's route; with a list of its own, a pattern without "*"
\* excludes the path equal to it.
C24_ExcludedNeverRewritten ==
    Decided =>
        /\ (req.config.excludePaths = DEFAULT_EXCLUDE_PATHS
                /\ (DefaultExcluded(req.pathname) \/ req.pathname = GEO_ROUTE)) =>
               result = NoRewrite /\ signal = NoSignal
        /\ (req.config.excludePaths # DEFAULT_EXCLUDE_PATHS
                /\ req.pathname = <<"/", "a">>) =>
               result = NoRewrite /\ signal = NoSignal

\* A bot asking for markdown at "/api/x.md" was passed through.
C24_Witness ==
    /\ Decided
    /\ req.config.excludePaths = DEFAULT_EXCLUDE_PATHS
    /\ req.pathname = <<"/", "api", "/", "x", ".", "m", "d">>
    /\ req.marker = ""
    /\ req.accept = Some(<<"text/markdown">>)
    /\ req.userAgent = Some(<<"ClaudeBot", "/", "1.0">>)
    /\ result = NoRewrite

----------------------------------------------------------------------------
(* The handler without auto-conversion, checked under Spec.                *)

\* C25: with enableAutoConversion false no fetch is issued or prepared; a
\* resolution that ends at a path without page.md is answered 404; what
\* is served is the body of the page.md found last, with the public
\* policy.
C25_NoFetchWhenDisabled ==
    (op = "get" /\ ~req.enableAutoConversion) =>
        /\ Fetches = {} /\ Blocked = {}
        /\ pc # "fetch"
        /\ (Resolved /\ LastEntry.content.null) =>
              result = NoResult /\ status = 404
        /\ (Resolved /\ result # NoResult) =>
              /\ ~LastEntry.content.null
              /\ Serves(Len(trail))
              /\ result.cacheControl = "public, max-age=300, s-maxage=3600"

\* A chain of two page.md redirects ended at a path without page.md and
\* was answered 404 without a fetch.
C25_Witness ==
    /\ Resolved
    /\ ~req.enableAutoConversion
    /\ Len(trail) = 3
    /\ AliasFound(1) /\ AliasFound(2)
    /\ trail[3].content.null
    /\ status = 404

\* C26: content returned by a resolution that issued a fetch carries the
\* private cache policy, also when the fetch was answered by a same-origin
\* redirect that led to a page.md.
C26_FetchedIsPrivate ==
    (Resolved /\ Fetches # {} /\ result # NoResult) =>
        result.cacheControl = "private, max-age=300"

----------------------------------------------------------------------------
(* src/discovery.ts: the Link header that advertises the markdown         *)
(* alternate of a page, and the request of a client that follows it.      *)

\* Paths for which addDiscoveryHeaders returns without setting a header.
SkipsDiscovery(pathname) ==
    \/ EndsWith(pathname, <<".", "m", "d">>)
    \/ StartsWith(pathname, <<"/", "api", "/">>)
    \/ StartsWith(pathname, <<"/", "_next", "/">>)
    \/ StartsWith(pathname, <<"/", "trpc", "/">>)

\* const mdPath = pathname === "/" ? "/index.md" : `${pathname}.md`
MdPath(pathname) ==
    IF pathname = <<"/">> THEN <<"/", "index", ".", "m", "d">>
    ELSE pathname \o <<".", "m", "d">>

\* `<${mdPath}>; rel="alternate"; type="text/markdown"`
LinkValue(mdPath) ==
    <<"<">> \o mdPath
            \o <<">", ";", " ", "rel=\"alternate\"", ";", " ", "type=\"text/markdown\"">>

NoHeaders == [Link |-> NullStr]

\* The headers of the response after addDiscoveryHeaders(response, pathname).
addDiscoveryHeaders(headers, pathname) ==
    IF SkipsDiscovery(pathname) THEN headers
    ELSE [headers EXCEPT !.Link = Some(LinkValue(MdPath(pathname)))]

\* The target of a Link header value (RFC 8288): the text between the
\* leading "<" and the first ">".
LinkTarget(value) ==
    LET close == CHOOSE i \in 1..Len(value) :
                     value[i] = ">" /\ \A j \in 1..(i - 1) : value[j] # ">"
    IN  SubSeq(value, 2, close - 1)

MaxDiscoveryLen == 2
DiscoveryChunks == {"/", "a", "index", "api", "_next", "trpc", "monitoring"}
DiscoverySuffixes == {<<>>, <<".", "m", "d">>}

\* Request paths: "/" followed by up to MaxDiscoveryLen chunks and an
\* optional ".md".
DiscoveryPaths ==
    { <<"/">> \o s \o x : s \in SeqUpTo(DiscoveryChunks, MaxDiscoveryLen),
                          x \in DiscoverySuffixes }

InitDiscovery ==
    /\ op = "discovery"
    /\ pc = "idle"
    /\ \E p \in DiscoveryPaths : req = [kind |-> "discovery", pathname |-> p]
    /\ signal = NoSignal
    /\ path = <<>>
    /\ redirectDepth = 0
    /\ files = <<>>
    /\ trail = <<>>
    /\ result = NoHeaders
    /\ status = 0
    /\ responseBody = <<>>
    /\ globals = InitialGlobals
    /\ now = 0

\* The response handler calls addDiscoveryHeaders for the request's path.
AddDiscovery ==
    /\ op = "discovery"
    /\ pc = "idle"
    /\ result' = addDiscoveryHeaders(result, req.pathname)
    /\ pc' = "answered"
    /\ UNCHANGED <<globals, now, op, req, signal, path, redirectDepth, files,
                   trail, status, responseBody>>

\* A client follows the advertised alternate: its request for the link
\* target is classified by detectLlmSignal with the default options.
FollowAlternate ==
    /\ op = "discovery"
    /\ pc = "answered"
    /\ Truthy(result.Link)
    /\ path' = LinkTarget(result.Link.v)
    /\ signal' = detectLlmSignal(path', NullStr, NullStr, DefaultDetectOptions)
    /\ globals' = AfterDetect(globals, path', NullStr, NullStr, DefaultDetectOptions)
    /\ pc' = "done"
    /\ UNCHANGED <<now, op, req, redirectDepth, files, trail, result, status,
                   responseBody>>

NextDiscovery == AddDiscovery \/ FollowAlternate

SpecDiscovery == InitDiscovery /\ [][NextDiscovery]_vars

\* C27: addDiscoveryHeaders sets no Link header for a path that
\* DEFAULT_EXCLUDE_PATHS excludes from detection.
C27_DiscoveryAligned ==
    (op = "discovery" /\ pc # "idle"
        /\ IsExcluded(req.pathname, DEFAULT_EXCLUDE_PATHS)) =>
        ~Truthy(result.Link)

\* C28: the request for the advertised alternate of p is classified as
\* md-suffix with original path p.
C28_AlternateIsSelf ==
    (op = "discovery" /\ pc = "done") =>
        signal = [type |-> "md-suffix", originalPath |-> req.pathname]

----------------------------------------------------------------------------
(* src/llms-txt.ts: discovery of page.md files below an app directory.     *)
(* A tree fs holds the readable files; readdir lists the names below a     *)
(* directory in the order the file system hands them out.                  *)

\* A name lies below dir when a file of the tree is dir/name or lies under it.
HasChild(fs, dir, name) ==
    LET child == dir \o <<"/">> \o name
    IN  \E f \in DOMAIN fs :
            /\ ~fs[f].null
            /\ StartsWith(f, child)
            /\ (Len(f) = Len(child) \/ f[Len(child) + 1] = "/")

\* stat(fullPath).isDirectory()
IsDirectory(fs, fullPath) ==
    \E f \in DOMAIN fs : ~fs[f].null /\ StartsWith(f, fullPath \o <<"/">>)

\* readdir(dir): the names below dir, in the order of names; it throws when
\* dir is no directory.
RECURSIVE NamesBelow(_, _, _)
NamesBelow(fs, dir, names) ==
    IF names = <<>> THEN <<>>
    ELSE (IF HasChild(fs, dir, Head(names)) THEN <<Head(names)>> ELSE <<>>)
            \o NamesBelow(fs, dir, Tail(names))

readdir(fs, dir, names) ==
    IF IsDirectory(fs, dir) THEN [ok |-> TRUE, names |-> NamesBelow(fs, dir, names)]
    ELSE [ok |-> FALSE, names |-> <<>>]

\* The elements of a sequence that satisfy no route-group test are kept.
RECURSIVE WithoutRouteGroups(_)
WithoutRouteGroups(segments) ==
    IF segments = <<>> THEN <<>>
    ELSE (IF IsRouteGroup(Head(segments)) THEN <<>> ELSE <<Head(segments)>>)
            \o WithoutRouteGroups(Tail(segments))

\* routePathToUrl: the route-group segments are dropped wherever they stand.
routePathToUrl(relativePath) ==
    IF relativePath = <<>> THEN <<"/">>
    ELSE <<"/">> \o Join(WithoutRouteGroups(Split(relativePath, "/")), "/")

\* The places where a line of the text starts.
LineStarts(text) == {i \in 1..Len(text) : i = 1 \/ text[i - 1] = "\n"}

\* The end of the line that holds place i.
LineEnd(text, i) ==
    LET ends == {j \in i..Len(text) : j = Len(text) \/ text[j + 1] = "\n"}
    IN  CHOOSE j \in ends : \A k \in ends : j <= k

\* markdown.match(/^#\s+(.+)$/m) at line start i: "#", then white space
\* that may run over line ends, then at least one chunk that is no line
\* end.  The places where the capture may start; the white space is
\* greedy, so it starts at the last of them and runs to the end of its line.
TitleCaptures(text, i) ==
    {k \in (i + 2)..Len(text) :
        /\ text[i] = "#"
        /\ \A j \in (i + 1)..(k - 1) : text[j] \in WhiteSpace
        /\ text[k] # "\n"}

\* extractTitle: the trimmed capture of the first match, undefined without one.
extractTitle(markdown) ==
    LET starts == {i \in LineStarts(markdown) : TitleCaptures(markdown, i) # {}}
    IN  IF starts = {} THEN NullStr
        ELSE LET i == CHOOSE a \in starts : \A b \in starts : a <= b
                 k == CHOOSE c \in TitleCaptures(markdown, i) :
                          \A d \in TitleCaptures(markdown, i) : d <= c
             IN  Some(Trim(SubSeq(markdown, k, LineEnd(markdown, k))))

\* Lines that extractDescription passes over; the chunk "fence" stands for
\* the three backquotes that open a code block.
NoParagraph(trimmed) ==
    \/ trimmed = <<>>
    \/ StartsWith(trimmed, <<"#">>)
    \/ StartsWith(trimmed, <<">">>)
    \/ StartsWith(trimmed, <<"-">>) \/ StartsWith(trimmed, <<"*">>)
    \/ StartsWith(trimmed, <<"fence">>)
    \/ StartsWith(trimmed, <<"-", "-", "-">>)

\* extractDescription: the first paragraph-like line, trimmed.
extractDescription(markdown) ==
    LET lines == Split(markdown, "\n")
        hits  == {i \in 1..Len(lines) : ~NoParagraph(Trim(lines[i]))}
    IN  IF hits = {} THEN NullStr
        ELSE Some(Trim(lines[CHOOSE i \in hits : \A j \in hits : i <= j]))

\* join(appDir, relativePath)
JoinDir(appDir, relativePath) ==
    IF relativePath = <<>> THEN appDir ELSE appDir \o <<"/">> \o relativePath

\* Directory names that the recursion skips.
SkippedName(name) ==
    StartsWith(name, <<"_">>) \/ name = <<"api">> \/ name = <<"node_modules">>

\* The entry of the page.md in the current directory, if it counts.
OwnEntries(fs, appDir, relativePath, dirEntries) ==
    LET content == tryReadFile(fs, JoinDir(appDir, relativePath) \o <<"/">> \o PageMd)
    IN  IF ~(\E i \in 1..Len(dirEntries) : dirEntries[i] = PageMd) \/ ~Truthy(content)
        THEN <<>>
        ELSE LET parsed == parseFrontmatter(content.v)
                 isRedirectOnly == Truthy(parsed.redirect) /\ Trim(parsed.body) = <<>>
                 urlPath == routePathToUrl(relativePath)
                 title == extractTitle(parsed.body)
             IN  IF isRedirectOnly THEN <<>>
                 ELSE << [path |-> urlPath,
                          title |-> IF ~title.null THEN title.v
                                    ELSE IF urlPath = <<"/">> THEN <<"Home">> ELSE urlPath,
                          description |-> extractDescription(parsed.body)] >>

\* discoverPageMdFiles(appDir, relativePath) and its loop over the names of
\* the current directory.
RECURSIVE discoverPageMdFiles(_, _, _, _)
RECURSIVE DiscoverChildren(_, _, _, _, _)
DiscoverChildren(fs, appDir, relativePath, dirEntries, names) ==
    IF dirEntries = <<>> THEN <<>>
    ELSE LET name == Head(dirEntries)
             childPath == IF relativePath # <<>> THEN relativePath \o <<"/">> \o name
                          ELSE name
             rest == DiscoverChildren(fs, appDir, relativePath, Tail(dirEntries), names)
         IN  IF SkippedName(name) \/ ~IsDirectory(fs, JoinDir(appDir, childPath))
             THEN rest
             ELSE discoverPageMdFiles(fs, appDir, childPath, names) \o rest

discoverPageMdFiles(fs, appDir, relativePath, names) ==
    LET listing == readdir(fs, JoinDir(appDir, relativePath), names)
    IN  IF ~listing.ok THEN <<>>
        ELSE OwnEntries(fs, appDir, relativePath, listing.names)
                \o DiscoverChildren(fs, appDir, relativePath, listing.names, names)

\* readPageMd(appDir, urlPath): page.md at the direct path, else under the
\* first top-level route group that holds a non-empty one.
RECURSIVE ReadInGroups(_, _, _, _)
ReadInGroups(fs, appDir, groups, segments) ==
    IF groups = <<>> THEN NullStr
    ELSE LET groupPath == resolve(appDir, <<Head(groups)>> \o segments \o <<PageMd>>)
         IN  IF isPathWithinDirectory(groupPath, appDir)
                /\ Truthy(tryReadFile(fs, groupPath))
             THEN tryReadFile(fs, groupPath)
             ELSE ReadInGroups(fs, appDir, Tail(groups), segments)

readPageMd(fs, appDir, urlPath, names) ==
    LET normalizedPath ==
            IF urlPath = <<"/">> THEN <<>>
            ELSE IF StartsWith(urlPath, <<"/">>) THEN Tail(urlPath) ELSE urlPath
        segments == IF normalizedPath # <<>> THEN Split(normalizedPath, "/") ELSE <<>>
        directPath == resolve(appDir, segments \o <<PageMd>>)
        topDirs == readdir(fs, appDir, names)
    IN  IF \E i \in 1..Len(segments) : IsDotSegment(segments[i]) THEN NullStr
        ELSE IF ~isPathWithinDirectory(directPath, appDir) THEN NullStr
        ELSE IF Truthy(tryReadFile(fs, directPath)) THEN tryReadFile(fs, directPath)
        ELSE IF ~topDirs.ok THEN NullStr
        ELSE ReadInGroups(fs, appDir, SelectSeq(topDirs.names, IsRouteGroup), segments)

\* The order of a.localeCompare(b) on the chunks that paths are made of:
\* punctuation before letters.
Collation == <<"_", "(", ")", "/", "a", "api", "b", "z">>
Rank(c) == CHOOSE i \in 1..Len(Collation) : Collation[i] = c

RECURSIVE LocaleLess(_, _)
LocaleLess(a, b) ==
    IF b = <<>> THEN FALSE
    ELSE IF a = <<>> THEN TRUE
    ELSE IF Head(a) = Head(b) THEN LocaleLess(Tail(a), Tail(b))
    ELSE Rank(Head(a)) < Rank(Head(b))

\* byPath.set(entry.path, entry) for each entry in turn: a path keeps the
\* place of its first entry and the value of its last.
RECURSIVE SetAll(_, _)
SetAll(byPath, entries) ==
    IF entries = <<>> THEN byPath
    ELSE LET e == Head(entries)
             at == {i \in 1..Len(byPath) : byPath[i].path = e.path}
         IN  SetAll(IF at = {} THEN Append(byPath, e)
                    ELSE [byPath EXCEPT ![CHOOSE i \in at : TRUE] = e],
                    Tail(entries))

\* Array.prototype.sort with the localeCompare of the paths (stable).
RECURSIVE SortByPath(_)
SortByPath(entries) ==
    IF entries = <<>> THEN <<>>
    ELSE LET e == Head(entries)
             sorted == SortByPath(Tail(entries))
             before == {i \in 0..Len(sorted) :
                           \A j \in 1..i : LocaleLess(sorted[j].path, e.path)}
             n == CHOOSE i \in before : \A j \in before : j <= i
         IN  SubSeq(sorted, 1, n) \o <<e>> \o SubSeq(sorted, n + 1, Len(sorted))

\* config.appDir ?? join(process.cwd(), "app")
AppDirOf(config) == IF config.appDir.null THEN AppDir ELSE config.appDir.v

gatherEntries(config, fs, names) ==
    LET discovered == discoverPageMdFiles(fs, AppDirOf(config), <<>>, names)
    IN  SortByPath(SetAll(SetAll(<<>>, discovered), config.entries))

\* The head lines of both documents: the title and the description.
HeadLines(config) ==
    << <<"#", " ">> \o config.siteTitle >>
        \o (IF Truthy(config.siteDescription)
            THEN << <<"\n", ">", " ">> \o config.siteDescription.v >>
            ELSE <<>>)

EntryLine(config, entry) ==
    <<"-", " ", "[">> \o entry.title \o <<"]", "(">> \o config.baseUrl \o entry.path
        \o <<")">>
        \o (IF Truthy(entry.description) THEN <<":", " ">> \o entry.description.v
            ELSE <<>>)

formatLlmsTxt(config, entries) ==
    LET lines == HeadLines(config)
                    \o (IF Len(entries) > 0
                        THEN << <<"\n", "#", "#", " ", "Pages", "\n">> >>
                                \o [i \in 1..Len(entries) |-> EntryLine(config, entries[i])]
                        ELSE <<>>)
    IN  Join(lines, "\n") \o <<"\n">>

\* The sections of llms-full.txt that the entries contribute.
RECURSIVE PageSections(_, _, _, _)
PageSections(config, entries, fs, names) ==
    IF entries = <<>> THEN <<>>
    ELSE LET md == readPageMd(fs, AppDirOf(config), Head(entries).path, names)
         IN  (IF Truthy(md)
              THEN << <<"\n", "-", "-", "-", "\n", "\n">> \o Trim(md.v) >>
              ELSE <<>>)
                \o PageSections(config, Tail(entries), fs, names)

formatLlmsFullTxt(config, fs, names) ==
    Join(HeadLines(config)
            \o PageSections(config, gatherEntries(config, fs, names), fs, names),
         "\n")

\* const httpTtl = config.cacheTtlSeconds ?? 3600; const cacheTtl = httpTtl * 1000
HttpTtl(config) == IF config.cacheTtlSeconds.null THEN 3600 ELSE config.cacheTtlSeconds.n
CacheTtl(config) == HttpTtl(config) * 1000

textResponse(content, cacheTtlSeconds) ==
    [type |-> "text", content |-> content, maxAge |-> cacheTtlSeconds]

----------------------------------------------------------------------------
(* The llms.txt and llms-full.txt handlers of one process: two handlers of *)
(* each kind, created from two configurations, share the module-level      *)
(* caches; the clock advances between the calls.                           *)

DocsDir == Cwd \o <<"/", "docs">>

NoTtl == [null |-> TRUE, n |-> 0]
LlmsConfigs ==
    << [siteTitle |-> <<"Site A">>, siteDescription |-> NullStr,
        baseUrl |-> <<"https://a.test">>, entries |-> <<>>,
        cacheTtlSeconds |-> NoTtl, appDir |-> NullStr],
       [siteTitle |-> <<"Site B">>, siteDescription |-> Some(<<"About B">>),
        baseUrl |-> <<"https://b.test">>,
        entries |-> << [path |-> <<"/", "z">>, title |-> <<"Z">>,
                        description |-> Some(<<"By hand">>)] >>,
        cacheTtlSeconds |-> [null |-> FALSE, n |-> 1], appDir |-> Some(DocsDir)] >>

\* The directories of the default app directory that may hold a page.md.
LlmsLocations ==
    { <<>>, <<"a">>, <<"b">>, <<"(", "g", ")", "/", "a">>,
      <<"a", "/", "(", "h", ")", "/", "b">>, <<"_", "p">>, <<"api">> }

\* The page.md of a directory: /b is an alias of /a, every other page has a
\* heading and a paragraph that name the directory.
AliasText == <<"-", "-", "-", "\n", "redirect", ":", " ", "/", "a", "\n", "-", "-", "-", "\n">>
PageText(dir) ==
    IF dir = <<"b">> THEN AliasText
    ELSE <<"#", " ", "Title", ":">> \o dir \o <<"\n", "\n", "Text", ":">> \o dir \o <<"\n">>

PageFile(appDir, dir) == JoinDir(appDir, dir) \o <<"/">> \o PageMd

\* The trees: page.md in a set of directories of the default app directory
\* and one page.md in the app directory of the second handler.
LlmsTreeOf(dirs) ==
    [f \in {PageFile(AppDir, d) : d \in dirs} \cup {PageFile(DocsDir, <<>>)} |->
        IF f = PageFile(DocsDir, <<>>) THEN Some(PageText(<<"docs">>))
        ELSE Some(PageText(CHOOSE d \in dirs : PageFile(AppDir, d) = f))]
LlmsTrees == {LlmsTreeOf(dirs) : dirs \in SUBSET LlmsLocations}

\* The two orders in which readdir hands out the names.
LlmsNames ==
    << <<"(", "g", ")">>, <<"(", "h", ")">>, <<"_", "p">>, <<"a">>, <<"api">>,
       <<"b">>, PageMd >>
Reversed(s) == [i \in 1..Len(s) |-> s[Len(s) + 1 - i]]
NameOrders == {LlmsNames, Reversed(LlmsNames)}

MaxGets == 2
MaxClock == 1000

InitLlms ==
    /\ op = "llms"
    /\ pc = "idle"
    /\ req = NoRequest
    /\ signal = NoSignal
    /\ path = <<>>
    /\ redirectDepth = 0
    /\ \E t \in LlmsTrees, n \in NameOrders : files = [tree |-> t, names |-> n]
    /\ trail = <<>>
    /\ result = NoResult
    /\ status = 0
    /\ responseBody = <<>>
    /\ globals = InitialGlobals
    /\ now = 0

\* The answer of a handler: the record of the call, the response and the
\* request that was answered.
Answer(kind, h, hit, entries, content) ==
    /\ req' = [kind |-> kind, handler |-> h]
    /\ trail' = Append(trail, [kind |-> kind, handler |-> h, at |-> now,
                               hit |-> hit, entries |-> entries, content |-> content])
    /\ result' = textResponse(content, HttpTtl(LlmsConfigs[h]))
    /\ status' = 200
    /\ responseBody' = content
    /\ pc' = "answered"
    /\ UNCHANGED <<now, op, signal, path, redirectDepth, files>>

\* GET of a handler made by createLlmsTxtHandler.
GetLlmsTxt ==
    /\ op = "llms"
    /\ Len(trail) < MaxGets
    /\ \E h \in 1..Len(LlmsConfigs) :
          LET config == LlmsConfigs[h]
              cache == globals.llmsTxtCache
          IN  IF ~cache.null /\ now < cache.expiresAt
              THEN /\ globals' = globals
                   /\ Answer("llms.txt", h, TRUE, <<>>, cache.content)
              ELSE LET entries == gatherEntries(config, files.tree, files.names)
                       content == formatLlmsTxt(config, entries)
                   IN  /\ globals' = [globals EXCEPT !.llmsTxtCache =
                              [null |-> FALSE, content |-> content,
                               expiresAt |-> now + CacheTtl(config)]]
                       /\ Answer("llms.txt", h, FALSE, entries, content)

\* GET of a handler made by createLlmsFullTxtHandler.
GetLlmsFullTxt ==
    /\ op = "llms"
    /\ Len(trail) < MaxGets
    /\ \E h \in 1..Len(LlmsConfigs) :
          LET config == LlmsConfigs[h]
              cache == globals.llmsFullTxtCache
          IN  IF ~cache.null /\ now < cache.expiresAt
              THEN /\ globals' = globals
                   /\ Answer("llms-full.txt", h, TRUE, <<>>, cache.content)
              ELSE LET entries == gatherEntries(config, files.tree, files.names)
                       content == formatLlmsFullTxt(config, files.tree, files.names)
                   IN  /\ globals' = [globals EXCEPT !.llmsFullTxtCache =
                              [null |-> FALSE, content |-> content,
                               expiresAt |-> now + CacheTtl(config)]]
                       /\ Answer("llms-full.txt", h, FALSE, entries, content)

\* clearLlmsTxtCache
ClearLlmsTxtCache ==
    /\ op = "llms"
    /\ ~globals.llmsTxtCache.null \/ ~globals.llmsFullTxtCache.null
    /\ globals' = [globals EXCEPT !.llmsTxtCache = NoCache,
                                  !.llmsFullTxtCache = NoCache]
    /\ UNCHANGED <<now, op, pc, req, signal, path, redirectDepth, files, trail,
                   result, status, responseBody>>

\* Date.now() advances by half a second.
Tick ==
    /\ op = "llms"
    /\ now < MaxClock
    /\ now' = now + 500
    /\ UNCHANGED <<globals, op, pc, req, signal, path, redirectDepth, files, trail,
                   result, status, responseBody>>

NextLlms == GetLlmsTxt \/ GetLlmsFullTxt \/ ClearLlmsTxtCache \/ Tick

SpecLlms == InitLlms /\ [][NextLlms]_vars

----------------------------------------------------------------------------
(* The llms.txt handlers, checked under SpecLlms.                          *)

\* What the handler of answer a generates from its own configuration.
OwnContent(a) ==
    IF a.kind = "llms.txt"
    THEN formatLlmsTxt(LlmsConfigs[a.handler],
                       gatherEntries(LlmsConfigs[a.handler], files.tree, files.names))
    ELSE formatLlmsFullTxt(LlmsConfigs[a.handler], files.tree, files.names)

\* The time at which the content of answer i was generated: the time of the
\* last answer of its kind up to i that did not come from the cache.
GeneratedAt(i) ==
    LET made == {j \in 1..i : trail[j].kind = trail[i].kind /\ ~trail[j].hit}
    IN  trail[CHOOSE j \in made : \A k \in made : k <= j].at

\* C29: every answer of an llms.txt or llms-full.txt handler is the content
\* generated from the configuration of the handler that was called, and is
\* younger than the cache TTL of that handler.
C29_OwnConfiguration ==
    op = "llms" =>
        \A i \in 1..Len(trail) :
            /\ trail[i].content = OwnContent(trail[i])
            /\ trail[i].at - GeneratedAt(i) < CacheTtl(LlmsConfigs[trail[i].handler])

\* The page.md files of the default app directory that discovery lists:
\* not below a skipped directory, not empty, and no alias without a body.
RelativeDir(f) == SubSeq(f, Len(AppDir) + 2, Len(f) - 2)
DiscoveredFiles ==
    {f \in DOMAIN files.tree :
        /\ StartsWith(f, AppDir \o <<"/">>)
        /\ Truthy(files.tree[f])
        /\ \A i \in 1..Len(Split(RelativeDir(f), "/")) :
              ~SkippedName(Split(RelativeDir(f), "/")[i])
        /\ ~(Truthy(parseFrontmatter(files.tree[f].v).redirect)
                /\ Trim(parseFrontmatter(files.tree[f].v).body) = <<>>)}

\* C30: after llms.txt was generated for the default app directory, each
\* discovered page.md is listed under its URL path u, findPageMd(u) returns
\* the content of that file, and llms-full.txt holds that content.
C30_ListedIsServed ==
    (op = "llms" /\ Len(trail) > 0 /\ ~trail[1].hit /\ trail[1].handler = 1) =>
        \A f \in DiscoveredFiles :
            LET u == routePathToUrl(RelativeDir(f))
            IN  /\ \E i \in 1..Len(trail[1].entries) : trail[1].entries[i].path = u
                /\ findPageMd(u, files.tree,
                              readdir(files.tree, AppDir, files.names)).content
                       = files.tree[f]
                /\ Includes(formatLlmsFullTxt(LlmsConfigs[1], files.tree, files.names),
                            Trim(files.tree[f].v))

====
